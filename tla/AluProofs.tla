------------------------------ MODULE AluProofs ------------------------------
(***************************************************************************)
(* Proofs about the integer instructions, for every width and operand.     *)
(*                                                                         *)
(* Alu: the flags are bits (TypeCorrect), conditions after a comparison go *)
(* the way of the numbers compared (Branches), and CF is the carry of a    *)
(* multi-word sum or difference of any length (Chains).                    *)
(*                                                                         *)
(* WideOps: shifts of one kind add up (ShiftsAddUp), SHLD and SHL shift a  *)
(* pair (PairsShift), DIV divides numbers of any length (DivisionExact),   *)
(* division undoes a product (DivisionUndoes) and IDIV rounds as C does    *)
(* (SignedExact); all follow from WideInv, what the registers hold after   *)
(* each series of instructions.                                            *)
(***************************************************************************)
EXTENDS Alu, WideOps, WellFoundedInduction, TLAPS

-------------------------------------------------------------------------------
(* Arithmetic modulo a width.                                                *)

\* A number below the modulus is its own remainder.
LEMMA ModSmall == ASSUME NEW w \in Nat, w > 0, NEW s \in 0 .. w - 1 PROVE s % w = s
  OBVIOUS

\* One wrap upwards.
LEMMA ModOver ==
    ASSUME NEW w \in Nat, w > 0, NEW s \in w .. 2 * w - 1 PROVE s % w = s - w
  OBVIOUS

\* One wrap downwards.
LEMMA ModUnder ==
    ASSUME NEW w \in Nat, w > 0, NEW s \in -w .. -1 PROVE s % w = s + w
  OBVIOUS

\* Multiplication distributes over a sum.
LEMMA Distribute ==
    ASSUME NEW w \in Int, NEW x \in Int, NEW y \in Int
    PROVE  w * (x + y) = w * x + w * y
  OBVIOUS

\* The sign bit splits the long values in half.
LEMMA LongHalves == Long \in Nat /\ Long > 0 /\ 2 * (Long \div 2) = Long /\ Long \div 2 \in Nat
  BY WidthAssumption

\* The widths the handlers work in.
LEMMA Widths ==
    /\ Byte \in Nat /\ Half \in Nat /\ Long \in Nat
    /\ Byte > 0 /\ Byte < Long \div 2 + 1 /\ Half < Long /\ Byte < Half
  BY WidthAssumption

\* A word of a sum: what carry_out computes is the carry.
LEMMA AddWord ==
    ASSUME NEW w \in Nat, w > 0, NEW a \in 0 .. w - 1, NEW b \in 0 .. w - 1,
           NEW c \in 0 .. 1
    PROVE  LET r == (a + b + c) % w IN
           /\ r \in 0 .. w - 1
           /\ a + b + c - r = Bit(carry_out(a, r, c)) * w
<1>1. CASE a + b + c < w
  <2>1. (a + b + c) % w = a + b + c
    BY <1>1, ModSmall
  <2> QED
    BY <1>1, <2>1 DEF Bit, carry_out
<1>2. CASE a + b + c >= w
  <2>1. (a + b + c) % w = a + b + c - w
    BY <1>2, ModOver
  <2> QED
    BY <1>2, <2>1 DEF Bit, carry_out
<1> QED
  BY <1>1, <1>2

\* A word of a difference without borrow in.
LEMMA SubWord ==
    ASSUME NEW w \in Nat, w > 0, NEW a \in 0 .. w - 1, NEW b \in 0 .. w - 1
    PROVE  LET r == (a - b) % w IN
           /\ r \in 0 .. w - 1
           /\ a - b - r = -(Bit(a < b) * w)
           /\ r = 0 <=> a = b
<1>1. CASE a >= b
  <2>1. (a - b) % w = a - b
    BY <1>1, ModSmall
  <2> QED
    BY <1>1, <2>1 DEF Bit
<1>2. CASE a < b
  <2>1. (a - b) % w = a - b + w
    BY <1>2, ModUnder
  <2> QED
    BY <1>2, <2>1 DEF Bit
<1> QED
  BY <1>1, <1>2

\* A word of a difference with borrow in: what borrow_out computes is the
\* borrow, b + c wrapping round or not.
LEMMA SbbWord ==
    ASSUME NEW a \in 0 .. Long - 1, NEW b \in 0 .. Long - 1, NEW c \in 0 .. 1
    PROVE  LET r == (a - b - c) % Long IN
           /\ r \in 0 .. Long - 1
           /\ a - b - c - r = -(Bit(borrow_out(a, b, c)) * Long)
<1> USE LongHalves
<1>1. (b + c) % Long = IF c = 1 /\ b = Long - 1 THEN 0 ELSE b + c
  <2>1. CASE c = 1 /\ b = Long - 1
    BY <2>1, ModOver
  <2>2. CASE ~(c = 1 /\ b = Long - 1)
    BY <2>2, ModSmall
  <2> QED
    BY <2>1, <2>2
<1>2. CASE a - b - c >= 0
  <2>1. (a - b - c) % Long = a - b - c
    BY <1>2, ModSmall
  <2>2. ~borrow_out(a, b, c)
    BY <1>1, <1>2 DEF borrow_out
  <2> QED
    BY <1>2, <2>1, <2>2 DEF Bit
<1>3. CASE a - b - c < 0
  <2>1. (a - b - c) % Long = a - b - c + Long
    BY <1>3, ModUnder
  <2>2. borrow_out(a, b, c)
    BY <1>1, <1>3 DEF borrow_out
  <2> QED
    BY <1>3, <2>1, <2>2 DEF Bit
<1> QED
  BY <1>2, <1>3

-------------------------------------------------------------------------------
(* What the flag helpers leave in each flag.                                 *)

OfAdd(a, b, r) == Bit(Sign(a) = Sign(b) /\ Sign(a) # Sign(r))
OfSub(a, b, r) == Bit(Sign(a) # Sign(b) /\ Sign(a) # Sign(r))

\* A truth value becomes a bit.
LEMMA BitType == ASSUME NEW p PROVE Bit(p) \in 0 .. 1
  BY DEF Bit

\* Each helper leaves flags.
LEMMA Helpers ==
    ASSUME NEW f \in Eflags, NEW r
    PROVE  /\ set_zf(f, r) = [f EXCEPT !.zf = Bit(r = 0)] /\ set_zf(f, r) \in Eflags
           /\ set_sf(f, r) = [f EXCEPT !.sf = Bit(Sign(r))] /\ set_sf(f, r) \in Eflags
           /\ set_pf(f, r) = [f EXCEPT !.pf = Bit(EvenParity(r % Byte))]
           /\ set_pf(f, r) \in Eflags
<1>1. /\ Bit(r = 0) \in 0 .. 1 /\ Bit(Sign(r)) \in 0 .. 1
      /\ Bit(EvenParity(r % Byte)) \in 0 .. 1
  BY BitType
<1> QED
  BY <1>1 DEF Eflags, set_zf, set_sf, set_pf

\* ZF and SF follow the result, CF and OF keep their values.
LEMMA ZeroSignFields ==
    ASSUME NEW f \in Eflags, NEW r
    PROVE  /\ ZeroSign(f, r) \in Eflags
           /\ ZeroSign(f, r).zf = Bit(r = 0) /\ ZeroSign(f, r).sf = Bit(Sign(r))
           /\ ZeroSign(f, r).cf = f.cf /\ ZeroSign(f, r).of = f.of
<1> DEFINE g == set_zf(f, r)
<1>1. g \in Eflags /\ g.zf = Bit(r = 0) /\ g.cf = f.cf /\ g.of = f.of
  <2>1. g = [f EXCEPT !.zf = Bit(r = 0)] /\ g \in Eflags
    BY Helpers
  <2> QED
    BY <2>1 DEF Eflags
<1>2. set_sf(g, r) \in Eflags /\ set_sf(g, r) = [g EXCEPT !.sf = Bit(Sign(r))]
  BY <1>1, Helpers
<1> HIDE DEF g
<1>3. /\ set_sf(g, r).zf = g.zf /\ set_sf(g, r).sf = Bit(Sign(r))
      /\ set_sf(g, r).cf = g.cf /\ set_sf(g, r).of = g.of
  BY <1>1, <1>2 DEF Eflags
<1> USE DEF g
<1> QED
  BY <1>1, <1>2, <1>3 DEF ZeroSign

\* So they do when PF is set too.
LEMMA ZeroSignParityFields ==
    ASSUME NEW f \in Eflags, NEW r
    PROVE  /\ ZeroSignParity(f, r) \in Eflags
           /\ ZeroSignParity(f, r).zf = Bit(r = 0)
           /\ ZeroSignParity(f, r).sf = Bit(Sign(r))
           /\ ZeroSignParity(f, r).cf = f.cf /\ ZeroSignParity(f, r).of = f.of
<1> DEFINE g == ZeroSign(f, r)
<1>1. /\ g \in Eflags /\ g.zf = Bit(r = 0) /\ g.sf = Bit(Sign(r))
      /\ g.cf = f.cf /\ g.of = f.of
  BY ZeroSignFields
<1>2. set_pf(g, r) \in Eflags /\ set_pf(g, r) = [g EXCEPT !.pf = Bit(EvenParity(r % Byte))]
  BY <1>1, Helpers
<1> HIDE DEF g
<1>3. /\ set_pf(g, r).zf = g.zf /\ set_pf(g, r).sf = g.sf
      /\ set_pf(g, r).cf = g.cf /\ set_pf(g, r).of = g.of
  BY <1>1, <1>2 DEF Eflags
<1> USE DEF g
<1> QED
  BY <1>1, <1>2, <1>3 DEF ZeroSignParity

\* CF is set by set_cf alone and the rest stays.
LEMMA CarryFields ==
    ASSUME NEW f \in Eflags, NEW p
    PROVE  /\ set_cf(f, p) \in Eflags /\ set_cf(f, p).cf = Bit(p)
           /\ set_cf(f, p).zf = f.zf /\ set_cf(f, p).sf = f.sf /\ set_cf(f, p).of = f.of
<1>1. set_cf(f, p) = [f EXCEPT !.cf = Bit(p)] /\ set_cf(f, p) \in Eflags
  BY BitType DEF set_cf, Eflags
<1> QED
  BY <1>1 DEF Eflags

\* OF is set by set_of_add and set_of_sub alone and the rest stays.
LEMMA OverflowFields ==
    ASSUME NEW f \in Eflags, NEW a, NEW b, NEW r
    PROVE  /\ set_of_add(f, a, b, r) \in Eflags /\ set_of_add(f, a, b, r).of = OfAdd(a, b, r)
           /\ set_of_add(f, a, b, r).cf = f.cf
           /\ set_of_sub(f, a, b, r) \in Eflags /\ set_of_sub(f, a, b, r).of = OfSub(a, b, r)
           /\ set_of_sub(f, a, b, r).cf = f.cf
           /\ set_of_sub(f, a, b, r).zf = f.zf /\ set_of_sub(f, a, b, r).sf = f.sf
<1>1. /\ set_of_add(f, a, b, r) = [f EXCEPT !.of = OfAdd(a, b, r)]
      /\ set_of_add(f, a, b, r) \in Eflags
      /\ set_of_sub(f, a, b, r) = [f EXCEPT !.of = OfSub(a, b, r)]
      /\ set_of_sub(f, a, b, r) \in Eflags
  <2>1. OfAdd(a, b, r) \in 0 .. 1 /\ OfSub(a, b, r) \in 0 .. 1
    BY BitType DEF OfAdd, OfSub
  <2> QED
    BY <2>1 DEF set_of_add, set_of_sub, OfAdd, OfSub, Eflags
<1> QED
  BY <1>1 DEF Eflags

\* The flags a comparison leaves: the borrow, zero, sign and overflow.
SubOutcome(f, a, b, r) ==
    /\ f \in Eflags
    /\ f.cf = Bit(a < b) /\ f.zf = Bit(r = 0) /\ f.sf = Bit(Sign(r))
    /\ f.of = OfSub(a, b, r)

\* SUB and CMP leave them, setting PF (SubFlags) ...
LEMMA SubFlagsFields ==
    ASSUME eflags \in Eflags, NEW a, NEW b, NEW r, NEW p
    PROVE  /\ SubFlags(a, b, r, p) \in Eflags
           /\ SubFlags(a, b, r, p).cf = Bit(p)
           /\ p = (a < b) => SubOutcome(SubFlags(a, b, r, p), a, b, r)
<1> DEFINE g == set_cf(eflags, p)
           h == ZeroSignParity(g, r)
<1>1. g \in Eflags /\ g.cf = Bit(p)
  BY CarryFields
<1> HIDE DEF g
<1>2. h \in Eflags /\ h.zf = Bit(r = 0) /\ h.sf = Bit(Sign(r)) /\ h.cf = g.cf
  BY <1>1, ZeroSignParityFields
<1> HIDE DEF h
<1>3. /\ set_of_sub(h, a, b, r) \in Eflags /\ set_of_sub(h, a, b, r).of = OfSub(a, b, r)
      /\ set_of_sub(h, a, b, r).cf = h.cf
      /\ set_of_sub(h, a, b, r).zf = h.zf /\ set_of_sub(h, a, b, r).sf = h.sf
  BY <1>2, OverflowFields
<1> USE DEF g, h
<1>4. SubFlags(a, b, r, p) = set_of_sub(h, a, b, r)
  BY DEF SubFlags
<1> HIDE DEF g, h
<1> QED
  BY <1>1, <1>2, <1>3, <1>4 DEF SubOutcome

\* ... the 81 and 83 groups and CMPXCHG without it.
LEMMA GroupSubFields ==
    ASSUME eflags \in Eflags, NEW a, NEW b, NEW r, NEW p
    PROVE  LET f == set_of_sub(ZeroSign(set_cf(eflags, p), r), a, b, r) IN
           /\ f \in Eflags /\ f.cf = Bit(p)
           /\ p = (a < b) => SubOutcome(f, a, b, r)
<1> DEFINE g == set_cf(eflags, p)
           h == ZeroSign(g, r)
<1>1. g \in Eflags /\ g.cf = Bit(p)
  BY CarryFields
<1> HIDE DEF g
<1>2. h \in Eflags /\ h.zf = Bit(r = 0) /\ h.sf = Bit(Sign(r)) /\ h.cf = g.cf
  BY <1>1, ZeroSignFields
<1> HIDE DEF h
<1>3. /\ set_of_sub(h, a, b, r) \in Eflags /\ set_of_sub(h, a, b, r).of = OfSub(a, b, r)
      /\ set_of_sub(h, a, b, r).cf = h.cf
      /\ set_of_sub(h, a, b, r).zf = h.zf /\ set_of_sub(h, a, b, r).sf = h.sf
  BY <1>2, OverflowFields
<1>4. LET f == set_of_sub(h, a, b, r) IN
      f \in Eflags /\ f.cf = Bit(p) /\ (p = (a < b) => SubOutcome(f, a, b, r))
  BY <1>1, <1>2, <1>3 DEF SubOutcome
<1> USE DEF g, h
<1> QED
  BY <1>4

\* ADD and ADC, with PF and in the groups without it.
LEMMA AddFields ==
    ASSUME eflags \in Eflags, NEW a, NEW b, NEW r, NEW c, NEW p
    PROVE  /\ AddFlags(a, b, r, c) \in Eflags
           /\ AddFlags(a, b, r, c).cf = Bit(carry_out(a, r, c))
           /\ LET f == set_of_add(ZeroSign(set_cf(eflags, p), r), a, b, r) IN
              f \in Eflags /\ f.cf = Bit(p)
<1>1. ASSUME NEW q
      PROVE /\ set_cf(eflags, q) \in Eflags /\ set_cf(eflags, q).cf = Bit(q)
            /\ ZeroSignParity(set_cf(eflags, q), r) \in Eflags
            /\ ZeroSignParity(set_cf(eflags, q), r).cf = Bit(q)
            /\ ZeroSign(set_cf(eflags, q), r) \in Eflags
            /\ ZeroSign(set_cf(eflags, q), r).cf = Bit(q)
  <2>1. set_cf(eflags, q) \in Eflags /\ set_cf(eflags, q).cf = Bit(q)
    BY CarryFields
  <2> QED
    BY <2>1, ZeroSignFields, ZeroSignParityFields
<1>2. AddFlags(a, b, r, c) \in Eflags /\ AddFlags(a, b, r, c).cf = Bit(carry_out(a, r, c))
  BY <1>1, OverflowFields DEF AddFlags
<1>3. LET f == set_of_add(ZeroSign(set_cf(eflags, p), r), a, b, r) IN
      f \in Eflags /\ f.cf = Bit(p)
  BY <1>1, OverflowFields
<1> QED
  BY <1>2, <1>3

-------------------------------------------------------------------------------
(* From the flags to the conditions.                                         *)

\* SF # OF is the signed comparison.
LEMMA SignedCompare ==
    ASSUME NEW a \in 0 .. Long - 1, NEW b \in 0 .. Long - 1
    PROVE  LET r == (a - b) % Long IN
           (Bit(Sign(r)) # OfSub(a, b, r)) <=> (ToSigned(a, Long) < ToSigned(b, Long))
<1> USE LongHalves
<1>1. CASE a >= b
  <2>1. (a - b) % Long = a - b
    BY <1>1, ModSmall
  <2> QED
    BY <1>1, <2>1 DEF Bit, Sign, OfSub, ToSigned
<1>2. CASE a < b
  <2>1. (a - b) % Long = a - b + Long
    BY <1>2, ModUnder
  <2> QED
    BY <1>2, <2>1 DEF Bit, Sign, OfSub, ToSigned
<1> QED
  BY <1>1, <1>2

\* After a long comparison every condition is right.
LEMMA LongCompared ==
    ASSUME NEW a \in 0 .. Long - 1, NEW b \in 0 .. Long - 1,
           SubOutcome(eflags', a, b, (a - b) % Long),
           cmp' = [kind |-> "long", a |-> a, b |-> b]
    PROVE  CompareBranch'
<1> DEFINE r == (a - b) % Long
<1>1. cmp'.kind = "long" /\ cmp'.a = a /\ cmp'.b = b /\ Width(cmp'.kind) = Long
  BY DEF Width
<1>2. r \in 0 .. Long - 1 /\ (r = 0 <=> a = b)
  BY SubWord, LongHalves
<1>3. /\ eflags'.cf = 1 <=> a < b
      /\ eflags'.cf = 0 <=> a >= b
      /\ eflags'.zf = 1 <=> a = b
      /\ eflags'.zf = 0 <=> a # b
      /\ eflags'.sf = 1 <=> r >= Long \div 2
      /\ eflags'.sf = 0 <=> r < Long \div 2
  BY <1>2, LongHalves DEF SubOutcome, Bit, Sign
<1>4. eflags'.sf # eflags'.of <=> ToSigned(a, Long) < ToSigned(b, Long)
  BY SignedCompare DEF SubOutcome
<1>5. ToSigned(a, Long) \in Int /\ ToSigned(b, Long) \in Int
      /\ (ToSigned(a, Long) = ToSigned(b, Long) <=> a = b)
  BY LongHalves DEF ToSigned
<1>6. \A cc \in Unsigned : Agrees(cc)'
  BY <1>1, <1>3 DEF Unsigned, Agrees, Taken, Holds
<1>7. \A cc \in OfSign : Agrees(cc)'
  BY <1>1, <1>3 DEF OfSign, Agrees, Taken, Holds
<1>8. \A cc \in Signed : Agrees(cc)'
  <2> HIDE DEF r
  <2> QED
    BY <1>1, <1>3, <1>4, <1>5 DEF Signed, Agrees, Taken, Holds
<1> QED
  BY <1>1, <1>6, <1>7, <1>8 DEF CompareBranch

\* After a byte or 16-bit comparison the unsigned conditions are right.
LEMMA NarrowCompared ==
    ASSUME NEW kind \in {"byte", "half"}, NEW w \in Nat, w > 0,
           NEW a \in 0 .. w - 1, NEW b \in 0 .. w - 1,
           eflags'.cf = Bit(a < b), eflags'.zf = Bit((a - b) % w = 0),
           cmp' = [kind |-> kind, a |-> a, b |-> b]
    PROVE  CompareBranch'
<1>1. cmp'.kind = kind /\ cmp'.a = a /\ cmp'.b = b
  OBVIOUS
<1>2. (a - b) % w = 0 <=> a = b
  BY SubWord
<1>3. /\ eflags'.cf = 1 <=> a < b
      /\ eflags'.cf = 0 <=> a >= b
      /\ eflags'.zf = 1 <=> a = b
      /\ eflags'.zf = 0 <=> a # b
  BY <1>2 DEF Bit
<1>4. \A cc \in Unsigned : Agrees(cc)'
  BY <1>1, <1>3 DEF Unsigned, Agrees, Taken, Holds
<1> QED
  BY <1>1, <1>4 DEF CompareBranch

\* After a logical operation the zero test is right, on longs the sign too.
LEMMA LogicCompared ==
    ASSUME NEW kind \in {"test", "testb"}, NEW r \in 0 .. Long - 1,
           eflags'.zf = Bit(r = 0), eflags'.sf = Bit(Sign(r)),
           cmp' = [kind |-> kind, a |-> r, b |-> 0]
    PROVE  CompareBranch'
<1>1. cmp'.kind = kind /\ cmp'.a = r /\ cmp'.b = 0
  OBVIOUS
<1>2. /\ eflags'.zf = 1 <=> r = 0
      /\ eflags'.zf = 0 <=> r # 0
      /\ eflags'.sf = 1 <=> r >= Long \div 2
      /\ eflags'.sf = 0 <=> r < Long \div 2
  BY LongHalves DEF Bit, Sign
<1>3. (r - 0) % Long = r
  BY ModSmall, LongHalves
<1>4. \A cc \in {"E", "NE"} : Agrees(cc)'
  BY <1>1, <1>2 DEF Agrees, Taken, Holds
<1>5. kind = "test" => \A cc \in OfSign : Agrees(cc)'
  BY <1>1, <1>2, <1>3 DEF OfSign, Agrees, Taken, Holds, Width
<1> QED
  BY <1>1, <1>4, <1>5 DEF CompareBranch

\* With no comparison remembered nothing is claimed.
LEMMA NotCompared == ASSUME cmp' = NoCmp PROVE CompareBranch'
  BY DEF NoCmp, CompareBranch

-------------------------------------------------------------------------------
(* The chain of carries.                                                     *)

CmpType == [kind : {"none", "long", "byte", "half", "test", "testb"},
            a : 0 .. Long - 1, b : 0 .. Long - 1]
ChainType == [kind : {"none", "add", "sub"}, width : {Byte, Long}, gap : Int,
              weight : Nat, words : Nat, group : BOOLEAN]

\* d is what a word whose carry out is c leaves of the sum or difference.
Leaves(kind, d, c, w) ==
    \/ kind = "add" /\ d = c * w
    \/ kind = "sub" /\ d = -(c * w)

\* The empty chain.
LEMMA EmptyChain == NoChain \in ChainType /\ NoChain.kind = "none"
  BY WidthAssumption DEF NoChain, ChainType

\* With no chain nothing is claimed.
LEMMA ChainDropped == ASSUME chain' = NoChain PROVE chain' \in ChainType /\ ChainExact'
  BY EmptyChain DEF ChainExact, Exact

\* The first word.
LEMMA ChainStarted ==
    ASSUME NEW kind, NEW w \in {Byte, Long}, NEW d \in Int, eflags'.cf \in 0 .. 1,
           Starts(kind, w, d), Leaves(kind, d, eflags'.cf, w)
    PROVE  chain' \in ChainType /\ ChainExact'
<1>1. kind \in {"add", "sub"}
  BY DEF Leaves
<1>2. w \in Nat
  BY Widths
<1>3. chain' \in ChainType
  BY <1>1, <1>2 DEF Starts, ChainType
<1>4. chain'.kind = kind /\ chain'.gap = d /\ chain'.weight = w
  BY DEF Starts
<1> QED
  BY <1>3, <1>4 DEF ChainExact, Exact, Leaves

\* A further word takes the carry in and passes the carry on.
LEMMA ChainContinued ==
    ASSUME TypeOK, ChainExact,
           NEW kind \in {"add", "sub"}, NEW w \in {Byte, Long}, NEW d \in Int,
           NEW group \in BOOLEAN, eflags'.cf \in 0 .. 1,
           Continues(kind, w, d, group),
           ~group => Leaves(kind, IF kind = "add" THEN d + eflags.cf ELSE d - eflags.cf,
                            eflags'.cf, w)
    PROVE  chain' \in ChainType /\ ChainExact'
<1>1. CASE ~(chain.kind = kind /\ chain.width = w /\ chain.words < MaxWords)
  BY <1>1, ChainDropped DEF Continues
<1>2. CASE chain.kind = kind /\ chain.width = w /\ chain.words < MaxWords
  <2>0. w \in Nat /\ eflags.cf \in 0 .. 1 /\ chain \in ChainType
    BY Widths DEF TypeOK, Eflags, ChainType
  <2>1. chain' = [chain EXCEPT !.gap = chain.gap + chain.weight * d,
                               !.weight = chain.weight * w,
                               !.words = chain.words + 1,
                               !.group = chain.group \/ group]
    BY <1>2 DEF Continues
  <2>2. chain.weight * d \in Int /\ chain.weight * w \in Nat
    BY <2>0 DEF ChainType
  <2>3. chain' \in ChainType
    <3> DEFINE grouped == chain.group \/ group
               gap == chain.gap + chain.weight * d
               weight == chain.weight * w
    <3>1. grouped \in BOOLEAN /\ gap \in Int /\ weight \in Nat /\ chain.words + 1 \in Nat
      BY <2>0, <2>2 DEF ChainType
    <3> HIDE DEF gap, weight, grouped
    <3>2. [chain EXCEPT !.gap = gap, !.weight = weight, !.words = chain.words + 1,
                        !.group = grouped] \in ChainType
      BY <2>0, <3>1 DEF ChainType
    <3> QED
      BY <2>1, <3>2 DEF gap, weight, grouped
  <2>4. /\ chain'.kind = kind /\ chain'.gap = chain.gap + chain.weight * d
        /\ chain'.weight = chain.weight * w /\ chain'.group = (chain.group \/ group)
    BY <1>2, <2>0, <2>1 DEF ChainType
  <2>5. ASSUME ~chain'.group PROVE Exact'
    <3>1. ~group /\ Exact
      BY <2>4, <2>5 DEF ChainExact
    <3>2. chain.weight \in Int /\ chain.gap \in Int
      BY <2>0 DEF ChainType
    <3>3. CASE kind = "add"
      <4>1. chain.gap = chain.weight * eflags.cf
        BY <1>2, <2>0, <3>1, <3>2, <3>3 DEF Exact
      <4>2. chain'.gap = chain.weight * (eflags.cf + d)
        BY <2>0, <2>4, <3>2, <4>1, Distribute
      <4>3. eflags.cf + d = eflags'.cf * w
        BY <2>0, <3>1, <3>3 DEF Leaves
      <4>4. chain.weight * (eflags'.cf * w) = eflags'.cf * (chain.weight * w)
        BY <2>0, <3>2
      <4> QED
        BY <2>4, <3>3, <4>2, <4>3, <4>4 DEF Exact
    <3>4. CASE kind = "sub"
      <4>1. chain.gap = -(chain.weight * eflags.cf)
        BY <1>2, <2>0, <3>1, <3>2, <3>4 DEF Exact
      <4>2. chain'.gap = chain.weight * (d - eflags.cf)
        BY <2>0, <2>4, <3>2, <4>1, Distribute
      <4>3. d - eflags.cf = -(eflags'.cf * w)
        BY <2>0, <3>1, <3>4 DEF Leaves
      <4>4. chain.weight * (-(eflags'.cf * w)) = -(eflags'.cf * (chain.weight * w))
        BY <2>0, <3>2
      <4> QED
        BY <2>4, <3>4, <4>2, <4>3, <4>4 DEF Exact
    <3> QED
      BY <3>3, <3>4
  <2> QED
    BY <2>3, <2>5 DEF ChainExact
<1> QED
  BY <1>1, <1>2

\* A chain whose carry no one touched.
LEMMA ChainKept ==
    ASSUME TypeOK, ChainExact, chain' = chain, eflags'.cf = eflags.cf
    PROVE  chain' \in ChainType /\ ChainExact'
  BY DEF TypeOK, Eflags, ChainType, ChainExact, Exact

-------------------------------------------------------------------------------
(* The inductive invariant: the three properties together.  ChainExact of    *)
(* one word needs it of the words before, and the flags to be bits.          *)

IInv == TypeOK /\ CompareBranch /\ ChainExact

\* The parts of IInv after a step.
LEMMA Assemble ==
    ASSUME eflags' \in Eflags, halted' \in BOOLEAN, cmp' \in CmpType,
           chain' \in ChainType, CompareBranch', ChainExact'
    PROVE  IInv'
  BY DEF IInv, TypeOK, Eflags, CmpType, ChainType

\* A remembered comparison of narrow or long values has its type.
LEMMA CmpTyped ==
    ASSUME NEW kind \in {"none", "long", "byte", "half", "test", "testb"},
           NEW a \in 0 .. Long - 1, NEW b \in 0 .. Long - 1
    PROVE  [kind |-> kind, a |-> a, b |-> b] \in CmpType /\ NoCmp \in CmpType
  BY LongHalves DEF CmpType, NoCmp

\* Every argument fits in its width, and every width in a long.
LEMMA Narrow ==
    /\ 0 .. Byte - 1 \subseteq 0 .. Long - 1
    /\ 0 .. Half - 1 \subseteq 0 .. Long - 1
    /\ NoCmp \in CmpType
  BY Widths, LongHalves, CmpTyped DEF CmpType, NoCmp

\* Sign extension stays in the operand size.
LEMMA ExtendedType ==
    ASSUME NEW b \in 0 .. Byte - 1, NEW w \in {Half, Long}
    PROVE  Extended(b, w) \in 0 .. w - 1
  BY WidthAssumption DEF Extended

\* ADD.
LEMMA AddStep ==
    ASSUME IInv, NEW w \in {Byte, Long}, NEW a \in 0 .. w - 1, NEW b \in 0 .. w - 1,
           op_add(w, a, b)
    PROVE  IInv'
<1> DEFINE r == (a + b) % w
<1>0. eflags \in Eflags /\ w \in Nat /\ w > 0 /\ halted' \in BOOLEAN /\ cmp' = NoCmp
  BY Widths, LongHalves DEF IInv, TypeOK, Eflags, op_add
<1>1. a + b + 0 = a + b
  BY <1>0
<1>2. r \in 0 .. w - 1 /\ a + b - r = Bit(carry_out(a, r, 0)) * w
  <2>1. LET s == (a + b + 0) % w IN
        s \in 0 .. w - 1 /\ a + b + 0 - s = Bit(carry_out(a, s, 0)) * w
    BY <1>0, 0 \in 0 .. 1, AddWord
  <2> QED
    BY <1>1, <2>1
<1>3. eflags' = AddFlags(a, b, r, 0) /\ Starts("add", w, a + b - r)
  BY DEF op_add
<1> HIDE DEF r
<1>4. eflags' \in Eflags /\ eflags'.cf = Bit(carry_out(a, r, 0))
  BY <1>0, <1>3, AddFields
<1>5. eflags'.cf \in 0 .. 1 /\ a + b - r \in Int
  BY <1>0, <1>2, <1>4, BitType
<1>6. chain' \in ChainType /\ ChainExact'
  BY <1>2, <1>3, <1>4, <1>5, ChainStarted DEF Leaves
<1>7. CompareBranch' /\ cmp' \in CmpType
  BY <1>0, NotCompared, Narrow
<1> QED
  BY <1>0, <1>4, <1>6, <1>7, Assemble

\* ADC.
LEMMA AdcStep ==
    ASSUME IInv, NEW w \in {Byte, Long}, NEW a \in 0 .. w - 1, NEW b \in 0 .. w - 1,
           op_adc(w, a, b)
    PROVE  IInv'
<1> DEFINE c == eflags.cf
           r == (a + b + c) % w
<1>0. /\ eflags \in Eflags /\ w \in Nat /\ w > 0 /\ halted' \in BOOLEAN /\ cmp' = NoCmp
      /\ c \in 0 .. 1
  BY Widths, LongHalves DEF IInv, TypeOK, Eflags, op_adc
<1>1. r \in 0 .. w - 1 /\ a + b + c - r = Bit(carry_out(a, r, c)) * w
  BY <1>0, AddWord
<1>2. eflags' = AddFlags(a, b, r, c) /\ Continues("add", w, a + b - r, FALSE)
  BY DEF op_adc
<1> HIDE DEF r
<1>3. eflags' \in Eflags /\ eflags'.cf = Bit(carry_out(a, r, c))
  BY <1>0, <1>2, AddFields
<1>4. eflags'.cf \in 0 .. 1 /\ a + b - r \in Int /\ a + b - r + c = eflags'.cf * w
  BY <1>0, <1>1, <1>3, BitType
<1>5. chain' \in ChainType /\ ChainExact'
  BY <1>2, <1>4, ChainContinued DEF Leaves, IInv
<1>6. CompareBranch' /\ cmp' \in CmpType
  BY <1>0, NotCompared, Narrow
<1> QED
  BY <1>0, <1>3, <1>5, <1>6, Assemble

\* SBB.
LEMMA SbbStep ==
    ASSUME IInv, NEW a \in 0 .. Long - 1, NEW b \in 0 .. Long - 1, op_sbb(a, b)
    PROVE  IInv'
<1> DEFINE c == eflags.cf
           r == (a - b - c) % Long
           p == borrow_out(a, b, c)
<1>0. eflags \in Eflags /\ halted' \in BOOLEAN /\ cmp' = NoCmp /\ c \in 0 .. 1
  BY DEF IInv, TypeOK, Eflags, op_sbb
<1>1. r \in 0 .. Long - 1 /\ a - b - c - r = -(Bit(p) * Long)
  BY <1>0, SbbWord
<1>2. eflags' = SubFlags(a, b, r, p) /\ Continues("sub", Long, a - b - r, FALSE)
  BY DEF op_sbb
<1> HIDE DEF r, p
<1>3. eflags' \in Eflags /\ eflags'.cf = Bit(p)
  BY <1>0, <1>2, SubFlagsFields
<1>4. eflags'.cf \in 0 .. 1 /\ a - b - r \in Int /\ a - b - r - c = -(eflags'.cf * Long)
  BY <1>0, <1>1, <1>3, BitType, LongHalves
<1>5. chain' \in ChainType /\ ChainExact'
  BY <1>2, <1>4, ChainContinued DEF Leaves, IInv
<1>6. CompareBranch' /\ cmp' \in CmpType
  BY <1>0, NotCompared, Narrow
<1> QED
  BY <1>0, <1>3, <1>5, <1>6, Assemble

\* A long subtraction or comparison, whichever way the handler sets PF, that
\* starts a chain or drops it.
LEMMA LongSubStep ==
    ASSUME IInv, NEW a \in 0 .. Long - 1, NEW b \in 0 .. Long - 1,
           SubOutcome(eflags', a, b, (a - b) % Long),
           halted' = halted, Compared("long", a, b),
           Starts("sub", Long, a - b - ((a - b) % Long)) \/ chain' = NoChain
    PROVE  IInv'
<1> DEFINE r == (a - b) % Long
<1>1. r \in 0 .. Long - 1 /\ a - b - r = -(Bit(a < b) * Long)
  BY SubWord, LongHalves
<1>2. eflags' \in Eflags /\ eflags'.cf = Bit(a < b) /\ eflags'.cf \in 0 .. 1
  BY BitType DEF SubOutcome
<1>3. cmp' = [kind |-> "long", a |-> a, b |-> b]
  BY DEF Compared
<1>4. CompareBranch' /\ cmp' \in CmpType
  BY <1>3, LongCompared, CmpTyped
<1>5. a - b - r \in Int
  BY <1>1, LongHalves
<1>6. Starts("sub", Long, a - b - r) => chain' \in ChainType /\ ChainExact'
  <2> HIDE DEF r
  <2> QED
    BY <1>1, <1>2, <1>5, ChainStarted DEF Leaves
<1>7. chain' \in ChainType /\ ChainExact'
  BY <1>6, ChainDropped
<1>8. halted' \in BOOLEAN
  BY DEF IInv, TypeOK, Eflags
<1> QED
  BY <1>2, <1>4, <1>7, <1>8, Assemble

\* SUB and CMP on longs, in handlers of their own, in the groups and in CMPXCHG.
LEMMA LongCompareStep ==
    ASSUME IInv, NEW a \in 0 .. Long - 1, NEW b \in 0 .. Long - 1,
           \/ op_sub(Long, a, b) \/ op_cmp(Long, a, b)
           \/ group_sub(a, b) \/ group_cmp(a, b)
    PROVE  IInv'
<1> DEFINE r == (a - b) % Long
<1>0. eflags \in Eflags
  BY DEF IInv, TypeOK, Eflags
<1>1. SubOutcome(SubFlags(a, b, r, a < b), a, b, r)
  BY <1>0, SubFlagsFields
<1>2. SubOutcome(GroupSub(a, b, r, a < b), a, b, r)
  BY <1>0, GroupSubFields DEF GroupSub
<1>3. CASE op_sub(Long, a, b)
  BY <1>1, <1>3, LongSubStep DEF op_sub
<1>4. CASE op_cmp(Long, a, b)
  BY <1>1, <1>4, LongSubStep DEF op_cmp
<1>5. CASE group_sub(a, b)
  BY <1>2, <1>5, LongSubStep DEF group_sub
<1>6. CASE group_cmp(a, b)
  BY <1>2, <1>6, LongSubStep DEF group_cmp
<1> QED
  BY <1>3, <1>4, <1>5, <1>6

\* A byte subtraction or comparison that starts a chain or drops it.
LEMMA ByteSubStep ==
    ASSUME IInv, NEW a \in 0 .. Byte - 1, NEW b \in 0 .. Byte - 1,
           eflags' = SubFlags(a, b, (a - b) % Byte, a < b),
           halted' = halted, Compared("byte", a, b),
           Starts("sub", Byte, a - b - ((a - b) % Byte)) \/ chain' = NoChain
    PROVE  IInv'
<1> DEFINE r == (a - b) % Byte
<1>1. r \in 0 .. Byte - 1 /\ a - b - r = -(Bit(a < b) * Byte)
  BY SubWord, Widths
<1>2. /\ eflags' \in Eflags /\ eflags'.cf = Bit(a < b) /\ eflags'.cf \in 0 .. 1
      /\ eflags'.zf = Bit(r = 0)
  <2>1. eflags \in Eflags
    BY DEF IInv, TypeOK, Eflags
  <2>2. SubOutcome(SubFlags(a, b, r, a < b), a, b, r)
    BY <2>1, SubFlagsFields
  <2> QED
    BY <2>2, BitType DEF SubOutcome
<1>3. cmp' = [kind |-> "byte", a |-> a, b |-> b]
  BY DEF Compared
<1>4. CompareBranch' /\ cmp' \in CmpType
  BY <1>2, <1>3, NarrowCompared, CmpTyped, Narrow, Widths
<1>5. a - b - r \in Int
  BY <1>1, Widths
<1>6. Starts("sub", Byte, a - b - r) => chain' \in ChainType /\ ChainExact'
  <2> HIDE DEF r
  <2> QED
    BY <1>1, <1>2, <1>5, ChainStarted DEF Leaves
<1>7. chain' \in ChainType /\ ChainExact'
  BY <1>6, ChainDropped
<1>8. halted' \in BOOLEAN
  BY DEF IInv, TypeOK, Eflags
<1> QED
  BY <1>2, <1>4, <1>7, <1>8, Assemble

\* Steps that leave flags, drop the comparison and drop or keep the chain.
LEMMA PlainStep ==
    ASSUME IInv, eflags' \in Eflags, halted' = halted, cmp' = NoCmp,
           chain' = NoChain \/ (chain' = chain /\ eflags'.cf = eflags.cf)
    PROVE  IInv'
<1>1. chain' \in ChainType /\ ChainExact'
  BY ChainDropped, ChainKept DEF IInv
<1>2. CompareBranch' /\ cmp' \in CmpType
  BY NotCompared, Narrow
<1>3. halted' \in BOOLEAN
  BY DEF IInv, TypeOK, Eflags
<1> QED
  BY <1>1, <1>2, <1>3, Assemble

\* INC and DEC.
LEMMA IncDecStep ==
    ASSUME IInv, NEW a \in 0 .. Long - 1, op_inc(a) \/ op_dec(a)
    PROVE  IInv'
<1>0. eflags \in Eflags
  BY DEF IInv, TypeOK, Eflags
<1>1. ASSUME NEW r PROVE ZeroSignParity(eflags, r) \in Eflags
                         /\ ZeroSignParity(eflags, r).cf = eflags.cf
  BY <1>0, ZeroSignParityFields
<1>2. CASE op_inc(a)
  <2>1. eflags' \in Eflags /\ eflags'.cf = eflags.cf
    BY <1>1, <1>2, OverflowFields DEF op_inc
  <2> QED
    BY <1>2, <2>1, PlainStep DEF op_inc
<1>3. CASE op_dec(a)
  <2>1. eflags' \in Eflags /\ eflags'.cf = eflags.cf
    BY <1>1, <1>3, OverflowFields DEF op_dec
  <2> QED
    BY <1>3, <2>1, PlainStep DEF op_dec
<1> QED
  BY <1>2, <1>3

\* NEG and IMUL.
LEMMA NegImulStep ==
    ASSUME IInv, NEW a, NEW w, op_neg(w, a) \/ op_imul(a)
    PROVE  IInv'
<1>0. eflags \in Eflags
  BY DEF IInv, TypeOK, Eflags
<1>1. CASE op_neg(w, a)
  <2> DEFINE r == (-a) % w
             f == ZeroSign(set_cf(eflags, a # 0), r)
  <2>1. f \in Eflags
    BY <1>0, CarryFields, ZeroSignFields
  <2>2. set_of_sub(f, 0, a, r) \in Eflags
    BY <2>1, OverflowFields
  <2>3. eflags' \in Eflags
    BY <1>1, <2>1, <2>2 DEF op_neg
  <2> QED
    BY <1>1, <2>3, PlainStep DEF op_neg, Forget
<1>2. CASE op_imul(a)
  <2>1. eflags' \in Eflags
    BY <1>0, <1>2, ZeroSignFields DEF op_imul
  <2> QED
    BY <1>2, <2>1, PlainStep DEF op_imul, Forget
<1> QED
  BY <1>1, <1>2

\* Logical operations, in a handler of their own or in a group.
LEMMA LogicStep ==
    ASSUME IInv, NEW kind \in {"test", "testb"}, NEW r \in 0 .. Long - 1,
           NEW f \in Eflags, f.zf = Bit(r = 0), f.sf = Bit(Sign(r)),
           eflags' = f \/ eflags' = set_cf(f, FALSE),
           Compared(kind, r, 0), chain' = NoChain, halted' = halted
    PROVE  IInv'
<1>1. eflags' \in Eflags /\ eflags'.zf = Bit(r = 0) /\ eflags'.sf = Bit(Sign(r))
  <2>1. /\ set_cf(f, FALSE) \in Eflags
        /\ set_cf(f, FALSE).zf = f.zf /\ set_cf(f, FALSE).sf = f.sf
    BY CarryFields, Zenon
  <2> QED
    BY <2>1
<1>2. cmp' = [kind |-> kind, a |-> r, b |-> 0]
  BY DEF Compared
<1>3. CompareBranch' /\ cmp' \in CmpType
  BY <1>1, <1>2, LogicCompared, CmpTyped, LongHalves
<1>4. chain' \in ChainType /\ ChainExact'
  BY ChainDropped
<1>5. halted' \in BOOLEAN
  BY DEF IInv, TypeOK, Eflags
<1> QED
  BY <1>1, <1>3, <1>4, <1>5, Assemble

\* AND, OR, XOR and TEST on longs.
LEMMA LongLogicStep ==
    ASSUME IInv, NEW r \in 0 .. Long - 1, NEW keeps_cf, op_logic(Long, r, keeps_cf)
    PROVE  IInv'
<1> DEFINE f == ZeroSignParity(eflags, r)
<1>1. f \in Eflags /\ f.zf = Bit(r = 0) /\ f.sf = Bit(Sign(r))
  BY ZeroSignParityFields DEF IInv, TypeOK, Eflags
<1>2. /\ eflags' = f \/ eflags' = set_cf(f, FALSE)
      /\ Compared("test", r, 0) /\ chain' = NoChain /\ halted' = halted
  BY DEF op_logic
<1> HIDE DEF f
<1> QED
  BY <1>1, <1>2, LogicStep

\* The same on bytes.
LEMMA ByteLogicStep ==
    ASSUME IInv, NEW r \in 0 .. Byte - 1, NEW keeps_cf, op_logic(Byte, r, keeps_cf)
    PROVE  IInv'
<1> DEFINE f == ZeroSignParity(eflags, r)
<1>1. f \in Eflags /\ f.zf = Bit(r = 0) /\ f.sf = Bit(Sign(r))
  BY ZeroSignParityFields DEF IInv, TypeOK, Eflags
<1>2. /\ eflags' = f \/ eflags' = set_cf(f, FALSE)
      /\ Compared("testb", r, 0) /\ chain' = NoChain /\ halted' = halted
  <2>1. Byte # Long
    BY WidthAssumption
  <2> QED
    BY <2>1 DEF op_logic
<1> HIDE DEF f
<1> QED
  BY <1>1, <1>2, LogicStep, Narrow

\* SUB and CMP on bytes.
LEMMA ByteCompareStep ==
    ASSUME IInv, NEW a \in 0 .. Byte - 1, NEW b \in 0 .. Byte - 1,
           op_sub(Byte, a, b) \/ op_cmp(Byte, a, b)
    PROVE  IInv'
<1>1. Byte # Long
  BY WidthAssumption
<1>2. CASE op_sub(Byte, a, b)
  BY <1>1, <1>2, ByteSubStep DEF op_sub
<1>3. CASE op_cmp(Byte, a, b)
  BY <1>1, <1>3, ByteSubStep DEF op_cmp
<1> QED
  BY <1>2, <1>3

\* A group's ADC or SBB makes the chain a group chain, of which ChainExact
\* says nothing.
LEMMA GroupChainStep ==
    ASSUME IInv, eflags' \in Eflags, halted' = halted, cmp' = NoCmp,
           NEW kind \in {"add", "sub"}, NEW w \in {Byte, Long}, NEW d \in Int,
           Continues(kind, w, d, TRUE)
    PROVE  IInv'
<1>1. eflags'.cf \in 0 .. 1 /\ TRUE \in BOOLEAN
  BY DEF Eflags
<1>2. chain' \in ChainType /\ ChainExact'
  BY <1>1, ChainContinued DEF IInv
<1>3. halted' \in BOOLEAN
  BY DEF IInv, TypeOK, Eflags
<1> QED
  BY <1>2, <1>3, NotCompared, Narrow, Assemble

\* ADC and SBB of the groups.
LEMMA GroupCarryStep ==
    ASSUME IInv, NEW w \in {Byte, Long}, NEW a \in 0 .. w - 1, NEW b \in 0 .. w - 1,
           \/ w = Byte /\ (group_80_adc(a, b) \/ group_80_sbb(a, b))
           \/ w = Long /\ (group_83_adc(a, b) \/ group_83_sbb(a, b))
    PROVE  IInv'
<1>0. /\ eflags \in Eflags /\ eflags.cf \in 0 .. 1
      /\ Byte \in Nat /\ Byte > 0 /\ Long \in Nat /\ Long > 0
  BY Widths, LongHalves DEF IInv, TypeOK, Eflags
<1>1. ASSUME NEW r, NEW p
      PROVE  /\ AddFlags(a, b, r, 0) \in Eflags /\ SubFlags(a, b, r, p) \in Eflags
             /\ GroupAdd(a, b, r) \in Eflags /\ GroupSub(a, b, r, p) \in Eflags
  <2>1. AddFlags(a, b, r, 0) \in Eflags
    BY <1>0, AddFields
  <2>2. GroupAdd(a, b, r) \in Eflags
    BY <1>0, AddFields DEF GroupAdd
  <2>3. SubFlags(a, b, r, p) \in Eflags
    BY <1>0, SubFlagsFields
  <2>4. GroupSub(a, b, r, p) \in Eflags
    BY <1>0, GroupSubFields DEF GroupSub
  <2> QED
    BY <2>1, <2>2, <2>3, <2>4
<1>2. ASSUME NEW s \in Int PROVE (s % w) \in Int
  BY <1>0
<1>3. CASE w = Byte /\ group_80_adc(a, b)
  <2> DEFINE r == (a + b) % Byte
  <2>1. a + b - r \in Int
    BY <1>0, <1>2, <1>3
  <2>2. /\ eflags' = AddFlags(a, b, r, 0) /\ halted' = halted /\ cmp' = NoCmp
        /\ Continues("add", Byte, a + b - r, TRUE)
    BY <1>3 DEF group_80_adc
  <2> HIDE DEF r
  <2> QED
    BY <1>1, <2>1, <2>2, GroupChainStep
<1>4. CASE w = Byte /\ group_80_sbb(a, b)
  <2> DEFINE r == (a - b) % Byte
  <2>1. a - b - r \in Int
    BY <1>0, <1>2, <1>4
  <2>2. /\ eflags' = SubFlags(a, b, r, a < b) /\ halted' = halted /\ cmp' = NoCmp
        /\ Continues("sub", Byte, a - b - r, TRUE)
    BY <1>4 DEF group_80_sbb
  <2> HIDE DEF r
  <2>3. eflags' \in Eflags
    BY <1>1, <2>2
  <2> QED
    BY <2>1, <2>2, <2>3, GroupChainStep
<1>5. CASE w = Long /\ group_83_adc(a, b)
  <2> DEFINE r == (a + b + eflags.cf) % Long
  <2>1. a + b - r \in Int
    BY <1>0, <1>2, <1>5
  <2>2. /\ eflags' = GroupAdd(a, b, r) /\ halted' = halted /\ cmp' = NoCmp
        /\ Continues("add", Long, a + b - r, TRUE)
    BY <1>5 DEF group_83_adc
  <2> HIDE DEF r
  <2> QED
    BY <1>1, <2>1, <2>2, GroupChainStep
<1>6. CASE w = Long /\ group_83_sbb(a, b)
  <2> DEFINE r == (a - b - eflags.cf) % Long
             p == a < (b + eflags.cf) % Long
  <2>1. a - b - r \in Int
    BY <1>0, <1>2, <1>6
  <2>2. /\ eflags' = GroupSub(a, b, r, p) /\ halted' = halted /\ cmp' = NoCmp
        /\ Continues("sub", Long, a - b - r, TRUE)
    BY <1>6 DEF group_83_sbb
  <2> HIDE DEF r, p
  <2>3. eflags' \in Eflags
    BY <1>1, <2>2
  <2> QED
    BY <2>1, <2>2, <2>3, GroupChainStep
<1> QED
  BY <1>3, <1>4, <1>5, <1>6

\* The 80 group.
LEMMA Group80Step ==
    ASSUME IInv, NEW reg, NEW a \in 0 .. Byte - 1, NEW b \in 0 .. Byte - 1,
           op_80_group(reg, a, b)
    PROVE  IInv'
<1>1. CASE op_add(Byte, a, b)
  BY <1>1, AddStep
<1>2. CASE group_80_adc(a, b) \/ group_80_sbb(a, b)
  BY <1>2, GroupCarryStep
<1>3. CASE op_sub(Byte, a, b) \/ op_cmp(Byte, a, b)
  BY <1>3, ByteCompareStep
<1>4. CASE \E r \in ByteArgs : op_logic(Byte, r, FALSE)
  BY <1>4, ByteLogicStep, ArgsAssumption, WidthAssumption
<1> QED
  BY <1>1, <1>2, <1>3, <1>4 DEF op_80_group

\* ADD of the 81 and 83 groups, which takes the carry out of result < a.
LEMMA GroupAddStep ==
    ASSUME IInv, NEW a \in 0 .. Long - 1, NEW b \in 0 .. Long - 1, group_add(a, b)
    PROVE  IInv'
<1> DEFINE r == (a + b) % Long
<1>0. eflags \in Eflags /\ halted' \in BOOLEAN /\ cmp' = NoCmp
  BY DEF IInv, TypeOK, Eflags, group_add
<1>1. a + b + 0 = a + b
  OBVIOUS
<1>2. r \in 0 .. Long - 1 /\ a + b - r = Bit(r < a) * Long
  <2>1. LET s == (a + b + 0) % Long IN
        s \in 0 .. Long - 1 /\ a + b + 0 - s = Bit(carry_out(a, s, 0)) * Long
    BY LongHalves, 0 \in 0 .. 1, AddWord
  <2>2. carry_out(a, r, 0) <=> r < a
    BY DEF carry_out
  <2> QED
    BY <1>1, <2>1, <2>2 DEF Bit
<1>3. eflags' = GroupAdd(a, b, r) /\ Starts("add", Long, a + b - r)
  BY DEF group_add
<1> HIDE DEF r
<1>4. eflags' \in Eflags /\ eflags'.cf = Bit(r < a)
  BY <1>0, <1>3, AddFields DEF GroupAdd
<1>5. eflags'.cf \in 0 .. 1 /\ a + b - r \in Int
  BY <1>2, <1>4, BitType, LongHalves
<1>6. chain' \in ChainType /\ ChainExact'
  BY <1>2, <1>3, <1>4, <1>5, ChainStarted DEF Leaves
<1> QED
  BY <1>0, <1>4, <1>6, NotCompared, Narrow, Assemble

\* AND, OR and XOR of the 81 and 83 groups.
LEMMA GroupLogicStep ==
    ASSUME IInv, NEW r \in 0 .. Long - 1, group_logic(r)
    PROVE  IInv'
<1> DEFINE f == ZeroSign(eflags, r)
<1>1. f \in Eflags /\ f.zf = Bit(r = 0) /\ f.sf = Bit(Sign(r))
  BY ZeroSignFields DEF IInv, TypeOK, Eflags
<1>2. /\ eflags' = set_cf(f, FALSE)
      /\ Compared("test", r, 0) /\ chain' = NoChain /\ halted' = halted
  BY DEF group_logic
<1> HIDE DEF f
<1> QED
  BY <1>1, <1>2, LogicStep

\* The 81 group.
LEMMA Group81Step ==
    ASSUME IInv, NEW reg, NEW a \in 0 .. Long - 1, NEW b \in 0 .. Long - 1,
           op_81(reg, a, b)
    PROVE  IInv'
<1>1. CASE group_add(a, b)
  BY <1>1, GroupAddStep
<1>2. CASE group_sub(a, b) \/ group_cmp(a, b)
  BY <1>2, LongCompareStep
<1>3. CASE \E r \in LongArgs : group_logic(r)
  BY <1>3, GroupLogicStep, ArgsAssumption, WidthAssumption
<1> QED
  BY <1>1, <1>2, <1>3 DEF op_81

\* The 83 group.
LEMMA Group83Step ==
    ASSUME IInv, NEW reg, NEW a \in 0 .. Long - 1, NEW b \in 0 .. Long - 1,
           op_83(reg, a, b)
    PROVE  IInv'
<1>1. CASE op_81(reg, a, b)
  BY <1>1, Group81Step
<1>2. CASE group_83_adc(a, b) \/ group_83_sbb(a, b)
  BY <1>2, GroupCarryStep
<1> QED
  BY <1>1, <1>2 DEF op_83

\* ZF of the 16-bit groups follows the result, CF keeps its value.
LEMMA HalfFields ==
    ASSUME NEW f \in Eflags, NEW r
    PROVE  /\ HalfZeroSign(f, r) \in Eflags
           /\ HalfZeroSign(f, r).zf = Bit(r = 0) /\ HalfZeroSign(f, r).cf = f.cf
<1> DEFINE g == set_zf(f, r)
           s == r * (Long \div Half)
<1>1. g \in Eflags /\ g = [f EXCEPT !.zf = Bit(r = 0)]
  BY Helpers
<1>2. g.zf = Bit(r = 0) /\ g.cf = f.cf
  BY <1>1 DEF Eflags
<1> HIDE DEF g, s
<1>3. set_sf(g, s) \in Eflags /\ set_sf(g, s) = [g EXCEPT !.sf = Bit(Sign(s))]
  BY <1>1, Helpers
<1>4. set_sf(g, s).zf = g.zf /\ set_sf(g, s).cf = g.cf
  BY <1>1, <1>3 DEF Eflags
<1>5. HalfZeroSign(f, r) = set_sf(g, s)
  BY DEF HalfZeroSign, g, s
<1> QED
  BY <1>2, <1>3, <1>4, <1>5

\* The 16-bit forms of both groups.
LEMMA GroupHalfStep ==
    ASSUME IInv, NEW reg, NEW a \in 0 .. Half - 1, NEW b \in 0 .. Half - 1,
           group_half(reg, a, b)
    PROVE  IInv'
<1>0. eflags \in Eflags
  BY DEF IInv, TypeOK, Eflags
<1>1. ASSUME NEW r, half_result(r) PROVE IInv'
  <2>1. eflags' \in Eflags
    BY <1>0, <1>1, HalfFields DEF half_result
  <2> QED
    BY <1>1, <2>1, PlainStep DEF half_result, Forget
<1>2. CASE half_cmp(a, b)
  <2> DEFINE r == (a - b) % Half
             f == set_cf(eflags, a < b)
  <2>1. f \in Eflags /\ f.cf = Bit(a < b)
    BY <1>0, CarryFields
  <2>2. /\ eflags' = HalfZeroSign(f, r) /\ chain' = NoChain /\ halted' = halted
        /\ cmp' = [kind |-> "half", a |-> a, b |-> b]
    BY <1>2 DEF half_cmp, Compared
  <2> HIDE DEF f
  <2>3. eflags' \in Eflags /\ eflags'.zf = Bit(r = 0) /\ eflags'.cf = Bit(a < b)
    BY <2>1, <2>2, HalfFields
  <2>4. CompareBranch' /\ cmp' \in CmpType
    BY <2>2, <2>3, NarrowCompared, CmpTyped, Narrow, Widths
  <2>5. halted' \in BOOLEAN
    BY <2>2 DEF IInv, TypeOK, Eflags
  <2> QED
    BY <2>2, <2>3, <2>4, <2>5, ChainDropped, Assemble
<1> QED
  BY <1>1, <1>2 DEF group_half

\* Steps that change no flag: the flagless handlers, a subcode that stops the
\* CPU, and a stopped CPU.
LEMMA FlagsKept ==
    ASSUME IInv, UNCHANGED <<eflags, cmp, chain>>, halted' = TRUE \/ halted' = halted
    PROVE  IInv'
<1>1. TypeOK'
  BY DEF IInv, TypeOK, Eflags
<1>2. CompareBranch'
  <2>1. ASSUME NEW cc, Agrees(cc) PROVE Agrees(cc)'
    <3>1. eflags' = eflags /\ cmp' = cmp
      OBVIOUS
    <3> QED
      BY <2>1, <3>1, Zenon DEF Agrees, Taken
  <2> QED
    BY <2>1 DEF IInv, CompareBranch
<1>3. ChainExact'
  BY DEF IInv, ChainExact, Exact
<1> QED
  BY <1>1, <1>2, <1>3 DEF IInv

\* Initially no flag is set and nothing remembered.
LEMMA Initially == Init => IInv
<1> SUFFICES ASSUME Init PROVE IInv
  OBVIOUS
<1>1. cmp = NoCmp /\ chain = NoChain
  BY DEF Init
<1>2. TypeOK
  <2>1. eflags \in Eflags /\ halted \in BOOLEAN
    <3>1. eflags \in Eflags
      BY DEF Init, Eflags, NoFlags
    <3>2. halted \in BOOLEAN
      BY Zenon DEF Init
    <3> QED
      BY <3>1, <3>2
  <2>2. cmp \in CmpType /\ chain \in ChainType
    BY <1>1, EmptyChain, Narrow
  <2> QED
    BY <2>1, <2>2 DEF TypeOK, Eflags, CmpType, ChainType
<1>3. CompareBranch
  BY <1>1 DEF NoCmp, CompareBranch
<1>4. ChainExact
  BY <1>1, EmptyChain DEF ChainExact, Exact
<1> QED
  BY <1>2, <1>3, <1>4 DEF IInv

\* Every handler preserves the invariant.
LEMMA Inductive == IInv /\ [Next]_vars => IInv'
<1> SUFFICES ASSUME IInv, [Next]_vars PROVE IInv'
  OBVIOUS
<1>0. /\ LongArgs \subseteq 0 .. Long - 1 /\ HalfArgs \subseteq 0 .. Half - 1
      /\ ByteArgs \subseteq 0 .. Byte - 1
  BY ArgsAssumption, WidthAssumption
<1>1. CASE LongStep
  <2>1. CASE \E a, b \in LongArgs : op_add(Long, a, b) \/ op_adc(Long, a, b) \/ op_sbb(a, b)
    BY <1>0, <2>1, AddStep, AdcStep, SbbStep
  <2>2. CASE \E a, b \in LongArgs :
               op_sub(Long, a, b) \/ op_cmp(Long, a, b) \/ op_cmpxchg(a, b)
    BY <1>0, <2>2, LongCompareStep DEF op_cmpxchg
  <2>3. CASE \E a, b \in LongArgs, reg \in 0 .. 7 : op_81(reg, a, b)
    BY <1>0, <2>3, Group81Step
  <2>4. CASE \E a \in LongArgs, b \in ByteArgs, reg \in 0 .. 7 :
               op_83(reg, a, Extended(b, Long))
    BY <1>0, <2>4, Group83Step, ExtendedType
  <2>5. CASE \E a \in LongArgs : op_inc(a) \/ op_dec(a)
    BY <1>0, <2>5, IncDecStep
  <2>6. CASE \E a \in LongArgs : op_neg(Long, a) \/ op_imul(a)
    BY <2>6, NegImulStep
  <2>7. CASE \E r \in LongArgs, keeps_cf \in BOOLEAN : op_logic(Long, r, keeps_cf)
    BY <1>0, <2>7, LongLogicStep
  <2> QED
    BY <1>1, <2>1, <2>2, <2>3, <2>4, <2>5, <2>6, <2>7
    DEF LongStep, op_or, op_and, op_xor, op_test
<1>2. CASE ByteStep
  <2>1. CASE \E a, b \in ByteArgs : op_add(Byte, a, b) \/ op_adc(Byte, a, b)
    BY <1>0, <2>1, AddStep, AdcStep
  <2>2. CASE \E a, b \in ByteArgs : op_cmp(Byte, a, b)
    BY <1>0, <2>2, ByteCompareStep
  <2>3. CASE \E a, b \in ByteArgs, reg \in 0 .. 7 : op_80_group(reg, a, b)
    BY <1>0, <2>3, Group80Step
  <2>4. CASE \E a \in ByteArgs : op_neg(Byte, a)
    BY <2>4, NegImulStep
  <2>5. CASE \E r \in ByteArgs : op_logic(Byte, r, FALSE)
    BY <1>0, <2>5, ByteLogicStep
  <2> QED
    BY <1>2, <2>1, <2>2, <2>3, <2>4, <2>5
    DEF ByteStep, op_or, op_and, op_xor, op_test
<1>3. CASE HalfStep
  BY <1>0, <1>3, GroupHalfStep, ExtendedType DEF HalfStep
<1>4. CASE op_flagless \/ group_unhandled \/ UNCHANGED vars
  BY <1>4, FlagsKept DEF op_flagless, group_unhandled, vars
<1> QED
  BY <1>1, <1>2, <1>3, <1>4 DEF Next

\* The three properties hold together, and a step preserves them together.
THEOREM InductiveInvariant == Spec => []IInv
  BY Initially, Inductive, PTL DEF Spec

\* The flags are bits and the histories have their types, whatever the widths.
THEOREM TypeCorrect == Spec => []TypeOK
<1>1. IInv => TypeOK
  BY DEF IInv
<1> QED
  BY <1>1, InductiveInvariant, PTL

\* After SUB, CMP, CMPXCHG, AND, OR, XOR and TEST the conditions that
\* CompareBranch names go the way of the numbers, for every operand.
THEOREM Branches == Spec => []CompareBranch
<1>1. IInv => CompareBranch
  BY DEF IInv
<1> QED
  BY <1>1, InductiveInvariant, PTL

\* CF is the carry or borrow of a multi-word number of any length.
THEOREM Chains == Spec => []ChainExact
<1>1. IInv => ChainExact
  BY DEF IInv
<1> QED
  BY <1>1, InductiveInvariant, PTL

-------------------------------------------------------------------------------
(* Shifts, rotates, products and quotients (WideOps): arithmetic.            *)

\* A set of naturals has a least element.
LEMMA Least ==
    ASSUME NEW T, T \subseteq Nat, T # {}
    PROVE  \E x \in T : \A y \in T : x <= y
<1> DEFINE R == {ss \in Nat \X Nat : ss[1] < ss[2]}
<1>1. IsWellFoundedOn(R, Nat)
  BY NatLessThanWellFounded DEF OpToRel
<1> HIDE DEF R
<1>2. PICK x \in T : \A y \in T : ~ (<<y, x>> \in R)
  BY <1>1, WFMin
<1>3. \A y \in T : <<y, x>>[1] = y /\ <<y, x>>[2] = x /\ <<y, x>> \in Nat \X Nat
  OBVIOUS
<1>4. \A y \in T : ~ (y < x)
  BY <1>2, <1>3, Zenon DEF R
<1>5. QED
  BY <1>2, <1>4

\* Induction in set form: T holds every natural number.
LEMMA Induction ==
    ASSUME NEW T, 0 \in T, \A n \in Nat : n \in T => n + 1 \in T
    PROVE  \A n \in Nat : n \in T
<1> DEFINE U == {n \in Nat : n \notin T}
<1> SUFFICES ASSUME U # {} PROVE FALSE
  OBVIOUS
<1>1. PICK x \in U : \A y \in U : x <= y
  BY Least
<1>2. x # 0 /\ x - 1 \in Nat
  BY <1>1
<1>3. x - 1 \in T
  BY <1>1, <1>2
<1>4. QED
  BY <1>1, <1>2, <1>3

\* Quotient and remainder are determined by what they add up to.
LEMMA Quotient ==
    ASSUME NEW w \in Nat, w > 0, NEW q \in Int, NEW r \in Int, 0 <= r, r < w
    PROVE  (q * w + r) \div w = q /\ (q * w + r) % w = r
<1> DEFINE y == q * w + r
           p == y \div w
           s == y % w
           d == p - q
<1>1. y = w * p + s /\ s \in 0 .. w - 1 /\ p \in Int
  OBVIOUS
<1>2. d \in Int /\ r - s = w * d /\ r - s \in -(w - 1) .. w - 1
  BY <1>1
<1> HIDE DEF d, s, y, p
<1>3. d = 0
  <2>1. CASE d >= 1
    BY <1>2, <2>1
  <2>2. CASE d <= -1
    BY <1>2, <2>2
  <2> QED BY <1>2, <2>1, <2>2
<1>4. s = r
  BY <1>1, <1>2, <1>3
<1>5. p = q
  BY <1>1, <1>3 DEF d
<1> QED BY <1>4, <1>5 DEF p, s, y

\* The parts division takes a number to.
LEMMA Parts ==
    ASSUME NEW w \in Nat, w > 0, NEW x \in Int
    PROVE  /\ x \div w \in Int /\ x % w \in Int /\ 0 <= x % w /\ x % w < w
           /\ x = (x \div w) * w + (x % w)
OBVIOUS

\* A multiple of the modulus does not change a remainder.
LEMMA ModMultiple ==
    ASSUME NEW w \in Nat, w > 0, NEW x \in Int, NEW q \in Int
    PROVE  (x + q * w) % w = x % w /\ (x + q * w) \div w = x \div w + q
<1> DEFINE p == x \div w
           r == x % w
<1>1. p \in Int /\ r \in Int /\ 0 <= r /\ r < w /\ x = p * w + r
  BY Parts
<1> HIDE DEF p, r
<1>2. x + q * w = (p + q) * w + r /\ p + q \in Int
  BY <1>1
<1>3. ((p + q) * w + r) \div w = p + q /\ ((p + q) * w + r) % w = r
  BY <1>1, <1>2, Quotient
<1> QED BY <1>2, <1>3 DEF p, r

\* A number below n widths has a quotient below n.
LEMMA QuotientBound ==
    ASSUME NEW w \in Nat, w > 0, NEW n \in Nat, NEW x \in Nat, x < n * w
    PROVE  x \div w \in Nat /\ x \div w < n
<1> DEFINE p == x \div w
           r == x % w
           e == n - p
<1>1. p \in Int /\ r \in Int /\ 0 <= r /\ r < w /\ x = p * w + r
  BY Parts
<1>2. e \in Int /\ n * w = p * w + e * w
  BY <1>1
<1>0. p \in Nat
  OBVIOUS
<1> HIDE DEF p, r, e
<1>3. e * w > r
  <2> DEFINE ew == e * w
             pw == p * w
             nw == n * w
  <2>1. ew \in Int /\ pw \in Int /\ nw \in Int /\ nw = pw + ew /\ x = pw + r /\ x < nw
    BY <1>1, <1>2
  <2> HIDE DEF ew, pw, nw
  <2>2. ew > r
    BY <1>1, <2>1
  <2> QED BY <2>2 DEF ew
<1>4. e > 0
  <2>1. ASSUME e <= 0 PROVE e * w <= 0
    BY <1>2, <2>1
  <2> DEFINE ew == e * w
  <2>2. ew \in Int /\ ew > r /\ (e <= 0 => ew <= 0)
    BY <1>2, <1>3, <2>1
  <2> HIDE DEF ew
  <2> QED BY <2>2, <1>1, <1>2
<1> QED BY <1>0, <1>4 DEF e, p

\* Dividing twice is dividing by the product.
LEMMA DivTwice ==
    ASSUME NEW v \in Nat, v > 0, NEW w \in Nat, w > 0, NEW x \in Int
    PROVE  (x \div v) \div w = x \div (v * w)
<1> DEFINE p == x \div v
           r == x % v
           q == p \div w
           s == p % w
           t == s * v + r
           u == v * w
<1>1. p \in Int /\ r \in Int /\ 0 <= r /\ r < v /\ x = p * v + r
  BY Parts
<1>2. q \in Int /\ s \in Int /\ 0 <= s /\ s < w /\ p = q * w + s
  BY <1>1, Parts
<1> HIDE DEF p, r, q, s
<1>3. x = q * u + t
  <2>1. (q * w + s) * v + r = q * (v * w) + (s * v + r)
    BY <1>1, <1>2
  <2> QED BY <1>1, <1>2, <2>1
<1>4. u \in Nat /\ u > 0 /\ t \in Int /\ 0 <= t /\ t < u
  <2> DEFINE sv == s * v
             d == w - s
             dv == d * v
  <2>1. sv \in Int /\ 0 <= sv /\ d \in Int /\ d >= 1
    BY <1>2
  <2>2. dv \in Int /\ u = sv + dv
    BY <1>2
  <2>3. dv >= v
    <3> HIDE DEF d
    <3> QED BY <2>1
  <2>4. t = sv + r
    OBVIOUS
  <2>5. u \in Nat /\ u > 0
    OBVIOUS
  <2> HIDE DEF sv, d, dv, t, u
  <2> QED BY <1>1, <2>1, <2>2, <2>3, <2>4, <2>5
<1> HIDE DEF t, u
<1>5. x \div u = q
  BY <1>2, <1>3, <1>4, Quotient
<1> QED BY <1>5 DEF u, q, p

-------------------------------------------------------------------------------
(* Powers of two.                                                            *)

\* The recursive function of Pow2.
Powers(n) == CHOOSE p : p = [i \in 0 .. n |-> IF i = 0 THEN 1 ELSE 2 * p[i - 1]]

\* Pow2 is that function.
LEMMA PowIsPower == ASSUME NEW n PROVE Pow2(n) = Powers(n)[n]
BY DEF Pow2, Powers

\* The recursive definition has a solution.
LEMMA PowersDefined ==
    ASSUME NEW n \in Nat
    PROVE  Powers(n) = [i \in 0 .. n |-> IF i = 0 THEN 1 ELSE 2 * Powers(n)[i - 1]]
<1> DEFINE T == {j \in Nat : \E f : f = [i \in 0 .. j |-> IF i = 0 THEN 1 ELSE 2 * f[i - 1]]}
<1>1. 0 \in T
  <2> DEFINE f == [i \in 0 .. 0 |-> 1]
  <2>1. f = [i \in 0 .. 0 |-> IF i = 0 THEN 1 ELSE 2 * f[i - 1]]
    OBVIOUS
  <2>2. QED
    BY <2>1
<1>2. ASSUME NEW j \in Nat, j \in T PROVE j + 1 \in T
  <2>1. PICK f : f = [i \in 0 .. j |-> IF i = 0 THEN 1 ELSE 2 * f[i - 1]]
    BY <1>2
  <2> DEFINE g == [i \in 0 .. j + 1 |-> IF i = j + 1 THEN 2 * f[j] ELSE f[i]]
  <2>2. ASSUME NEW i \in 0 .. j + 1
        PROVE  g[i] = IF i = 0 THEN 1 ELSE 2 * g[i - 1]
    <3>1. CASE i = j + 1
      BY <3>1
    <3>2. CASE i # j + 1
      <4>1. i \in 0 .. j /\ g[i] = f[i] /\ (i # 0 => g[i - 1] = f[i - 1])
        BY <3>2
      <4>2. QED
        BY <4>1, <2>1
    <3>3. QED
      BY <3>1, <3>2
  <2> HIDE DEF g
  <2>3. g = [i \in 0 .. j + 1 |-> IF i = 0 THEN 1 ELSE 2 * g[i - 1]]
    BY <2>2 DEF g
  <2>4. \E h : h = [i \in 0 .. j + 1 |-> IF i = 0 THEN 1 ELSE 2 * h[i - 1]]
    BY <2>3, Zenon
  <2>5. j + 1 \in Nat
    OBVIOUS
  <2>6. QED
    BY <2>4, <2>5, Zenon
<1> HIDE DEF T
<1>3. n \in T
  BY <1>1, <1>2, Induction
<1>4. \E f : f = [i \in 0 .. n |-> IF i = 0 THEN 1 ELSE 2 * f[i - 1]]
  BY <1>3 DEF T
<1>5. QED
  BY <1>4 DEF Powers

\* One more bit doubles the power.
LEMMA PowStep ==
    ASSUME NEW k \in Nat
    PROVE  Pow2(0) = 1 /\ Pow2(k + 1) = 2 * Pow2(k)
<1> DEFINE f == Powers(k)
           g == Powers(k + 1)
           z == Powers(0)
<1>1. /\ f = [i \in 0 .. k |-> IF i = 0 THEN 1 ELSE 2 * f[i - 1]]
      /\ g = [i \in 0 .. k + 1 |-> IF i = 0 THEN 1 ELSE 2 * g[i - 1]]
      /\ z = [i \in 0 .. 0 |-> IF i = 0 THEN 1 ELSE 2 * z[i - 1]]
  <2>1. k + 1 \in Nat /\ 0 \in Nat
    OBVIOUS
  <2>2. QED
    BY <2>1, PowersDefined, Zenon
<1>2. Pow2(0) = z[0] /\ Pow2(k) = f[k] /\ Pow2(k + 1) = g[k + 1]
  BY PowIsPower
<1> HIDE DEF f, g, z
<1> DEFINE T == {j \in Nat : j <= k => f[j] = g[j]}
<1>3. 0 \in T
  BY <1>1
<1>4. ASSUME NEW j \in Nat, j \in T PROVE j + 1 \in T
  <2>1. CASE j + 1 <= k
    <3>1. /\ f[j] = g[j] /\ j + 1 \in 0 .. k /\ j + 1 \in 0 .. k + 1 /\ j + 1 # 0
          /\ (j + 1) - 1 = j
      BY <1>4, <2>1
    <3>2. f[j + 1] = 2 * f[j] /\ g[j + 1] = 2 * g[j]
      BY <1>1, <3>1
    <3>3. QED
      BY <3>1, <3>2
  <2>2. QED
    BY <2>1
<1> HIDE DEF T
<1>5. k \in T
  BY <1>3, <1>4, Induction
<1>6. f[k] = g[k]
  BY <1>5 DEF T
<1>7. g[k + 1] = 2 * g[k] /\ z[0] = 1
  <2>1. k + 1 \in 0 .. k + 1 /\ k + 1 # 0 /\ (k + 1) - 1 = k
    OBVIOUS
  <2>2. QED
    BY <1>1, <2>1
<1>8. QED
  BY <1>2, <1>6, <1>7

\* Powers are positive.
LEMMA PowPositive ==
    ASSUME NEW k \in Nat
    PROVE  Pow2(k) \in Nat /\ Pow2(k) > 0
<1> DEFINE T == {j \in Nat : Pow2(j) \in Nat /\ Pow2(j) > 0}
<1>1. 0 \in T
  BY PowStep
<1>2. ASSUME NEW j \in Nat, j \in T PROVE j + 1 \in T
  <2>1. Pow2(j + 1) = 2 * Pow2(j)
    BY PowStep
  <2>2. QED
    BY <1>2, <2>1
<1> HIDE DEF T
<1>3. k \in T
  BY <1>1, <1>2, Induction
<1>4. QED
  BY <1>3 DEF T

\* Exponents add up.
LEMMA PowSum ==
    ASSUME NEW a \in Nat, NEW b \in Nat
    PROVE  Pow2(a + b) = Pow2(a) * Pow2(b)
<1> DEFINE T == {j \in Nat : Pow2(a + j) = Pow2(a) * Pow2(j)}
<1>1. 0 \in T
  BY PowStep, PowPositive
<1>2. ASSUME NEW j \in Nat, j \in T PROVE j + 1 \in T
  <2> DEFINE p == Pow2(a)
             q == Pow2(j)
  <2>1. Pow2(j + 1) = 2 * q
    BY PowStep
  <2>2. Pow2((a + j) + 1) = 2 * Pow2(a + j) /\ (a + j) + 1 = a + (j + 1)
    <3>1. a + j \in Nat
      OBVIOUS
    <3>2. QED
      BY <3>1, PowStep
  <2>3. Pow2(a + j) = p * q /\ p \in Nat /\ q \in Nat
    BY <1>2, PowPositive
  <2> HIDE DEF p, q
  <2>4. 2 * (p * q) = p * (2 * q)
    BY <2>3
  <2>5. QED
    BY <2>1, <2>2, <2>3, <2>4 DEF p
<1> HIDE DEF T
<1>3. b \in T
  BY <1>1, <1>2, Induction
<1>4. QED
  BY <1>3 DEF T

\* The widths of the registers.
LEMMA WideSizes ==
    /\ ByteBits \in Nat /\ LongBits \in Nat /\ Byte = Pow2(ByteBits) /\ Long = Pow2(LongBits)
    /\ Half = Byte * Byte
    /\ Byte \in Nat /\ Half \in Nat /\ Long \in Nat /\ Byte >= 2 /\ Byte < Half /\ Half < Long
    /\ 2 * (Byte \div 2) = Byte /\ 2 * (Half \div 2) = Half /\ 2 * (Long \div 2) = Long
    /\ Byte \div 2 \in Nat /\ Half \div 2 \in Nat /\ Long \div 2 \in Nat
    /\ Long \div Half \in Nat /\ Long = (Long \div Half) * Half
    /\ MaxTotal \in Nat /\ MaxWords \in Nat
BY WideAssumption, WidthAssumption

-------------------------------------------------------------------------------
(* The bits of a number.                                                     *)

\* Splitting a power.
LEMMA PowSplit ==
    ASSUME NEW b \in Nat, NEW n \in 0 .. b
    PROVE  /\ n \in Nat /\ b - n \in Nat
           /\ Pow2(n) \in Nat /\ Pow2(n) > 0 /\ Pow2(b - n) \in Nat /\ Pow2(b - n) > 0
           /\ Pow2(b) = Pow2(b - n) * Pow2(n) /\ Pow2(b) \in Nat
<1>1. n \in Nat /\ b - n \in Nat /\ (b - n) + n = b
  OBVIOUS
<1>2. Pow2((b - n) + n) = Pow2(b - n) * Pow2(n)
  BY <1>1, PowSum
<1> QED BY <1>1, <1>2, PowPositive

\* The bits of a number and of one put in front of it.
LEMMA BitsOfParts ==
    ASSUME NEW n \in Nat, NEW i \in Nat, NEW x \in Int, NEW y \in Int, 0 <= y, y < Pow2(n)
    PROVE  BitAt(x * Pow2(n) + y, i) = IF i < n THEN BitAt(y, i) ELSE BitAt(x, i - n)
<1>1. CASE i < n
  <2> DEFINE k == n - (i + 1)
             a == Pow2(i)
             c == Pow2(k)
             q == y \div a
             t == x * c
  <2>1. k \in Nat /\ i + 1 \in 0 .. n
    BY <1>1
  <2>2. /\ a \in Nat /\ a > 0 /\ c \in Nat /\ Pow2(i + 1) = 2 * a
        /\ Pow2(n) = c * Pow2(i + 1)
    BY <2>1, PowSplit, PowStep, PowPositive
  <2> HIDE DEF a, c
  <2>3. t \in Int /\ q \in Int
    BY <2>2
  <2>4. x * Pow2(n) + y = y + (t * 2) * a
    <3>1. x * (c * (2 * a)) = ((x * c) * 2) * a
      BY <2>2
    <3>2. ((x * c) * 2) * a \in Int
      BY <2>2
    <3> QED BY <2>2, <3>1, <3>2
  <2> HIDE DEF t
  <2>5. (y + (t * 2) * a) \div a = q + t * 2
    <3>1. t * 2 \in Int
      BY <2>3
    <3> QED BY <2>2, <3>1, ModMultiple
  <2> HIDE DEF q
  <2>6. (q + t * 2) % 2 = q % 2
    BY <2>3, ModMultiple
  <2>7. BitAt(x * Pow2(n) + y, i) = (q + t * 2) % 2
    BY <2>4, <2>5 DEF BitAt, a
  <2>8. BitAt(y, i) = q % 2
    BY DEF BitAt, q, a
  <2> QED BY <1>1, <2>6, <2>7, <2>8
<1>2. CASE ~(i < n)
  <2> DEFINE k == i - n
             z == x * Pow2(n) + y
  <2>1. k \in Nat /\ i = n + k /\ Pow2(n) \in Nat /\ Pow2(n) > 0
    BY <1>2, PowPositive
  <2>2. Pow2(i) = Pow2(n) * Pow2(k) /\ Pow2(k) \in Nat /\ Pow2(k) > 0
    BY <2>1, PowSum, PowPositive
  <2>3. z \in Int /\ z \div Pow2(n) = x
    BY <2>1, Quotient
  <2> HIDE DEF z, k
  <2>4. (z \div Pow2(n)) \div Pow2(k) = z \div Pow2(i)
    BY <2>1, <2>2, <2>3, DivTwice
  <2>5. BitAt(z, i) = BitAt(x, k)
    BY <2>3, <2>4 DEF BitAt
  <2> QED BY <2>5, <1>2 DEF z, k
<1> QED BY <1>1, <1>2

\* Bits are bits; zero has none and -1 has all.
LEMMA BitRange ==
    ASSUME NEW x \in Int, NEW i \in Nat
    PROVE  /\ BitAt(x, i) \in 0 .. 1 /\ BitAt(0, i) = 0 /\ BitAt(-1, i) = 1
           /\ Bit(BitAt(x, i) = 1) = BitAt(x, i)
<1> DEFINE a == Pow2(i)
<1>1. a \in Nat /\ a > 0
  BY PowPositive
<1> HIDE DEF a
<1>2. 0 \div a = 0 /\ (-1) \div a = -1
  <2>1. (0 * a + 0) \div a = 0
    BY <1>1, Quotient
  <2>2. ((-1) * a + (a - 1)) \div a = -1
    BY <1>1, Quotient
  <2> QED BY <1>1, <2>1, <2>2
<1>3. x \div a \in Int
  BY <1>1
<1>4. BitAt(x, i) = (x \div a) % 2 /\ BitAt(0, i) = (0 \div a) % 2 /\ BitAt(-1, i) = ((-1) \div a) % 2
  BY DEF BitAt, a
<1>5. BitAt(x, i) \in 0 .. 1 /\ BitAt(0, i) = 0 /\ BitAt(-1, i) = 1
  BY <1>2, <1>3, <1>4
<1> QED BY <1>5 DEF Bit

\* A number has no bits past its width.
LEMMA BitsPast ==
    ASSUME NEW n \in Nat, NEW x \in Int, 0 <= x, x < Pow2(n), NEW i \in Nat, i >= n
    PROVE  BitAt(x, i) = 0
<1>0. 0 \in Int /\ ~(i < n)
  OBVIOUS
<1>1. BitAt(0 * Pow2(n) + x, i) = IF i < n THEN BitAt(x, i) ELSE BitAt(0, i - n)
  BY <1>0, BitsOfParts, Zenon
<1>2. 0 * Pow2(n) + x = x /\ i - n \in Nat
  BY PowPositive
<1>3. BitAt(0, i - n) = 0
  BY <1>2, BitRange
<1> QED BY <1>0, <1>1, <1>2, <1>3

\* The bits of a quotient and of a remainder.
LEMMA BitsCut ==
    ASSUME NEW n \in Nat, NEW x \in Int, NEW i \in Nat
    PROVE  /\ BitAt(x \div Pow2(n), i) = BitAt(x, i + n)
           /\ i < n => BitAt(x % Pow2(n), i) = BitAt(x, i)
<1> DEFINE q == x \div Pow2(n)
           r == x % Pow2(n)
<1>1. Pow2(n) \in Nat /\ Pow2(n) > 0
  BY PowPositive
<1>2. q \in Int /\ r \in Int /\ 0 <= r /\ r < Pow2(n) /\ x = q * Pow2(n) + r
  BY <1>1, Parts
<1> HIDE DEF q, r
<1>3. \A j \in Nat : BitAt(x, j) = IF j < n THEN BitAt(r, j) ELSE BitAt(q, j - n)
  BY <1>2, BitsOfParts
<1>4. i + n \in Nat /\ ~(i + n < n) /\ (i + n) - n = i
  OBVIOUS
<1>5. BitAt(x, i + n) = BitAt(q, i) /\ (i < n => BitAt(x, i) = BitAt(r, i))
  BY <1>3, <1>4
<1> QED BY <1>5 DEF q, r

-------------------------------------------------------------------------------
(* Shifted and rotated numbers.                                              *)

\* A left shift by no more than the width.
LEMMA ShlForm ==
    ASSUME NEW b \in Nat, NEW n \in 0 .. b, NEW v \in Nat
    PROVE  /\ Shl(v, n, b) = (v % Pow2(b - n)) * Pow2(n)
           /\ Shl(v, n, b) \in Nat /\ Shl(v, n, b) + Pow2(n) <= Pow2(b)
<1> DEFINE a == Pow2(n)
           c == Pow2(b - n)
           k == v \div c
           m == v % c
<1>1. a \in Nat /\ a > 0 /\ c \in Nat /\ c > 0 /\ Pow2(b) = c * a
  BY PowSplit
<1> HIDE DEF a, c
<1>2. k \in Int /\ m \in Int /\ 0 <= m /\ m < c /\ v = k * c + m
  BY <1>1, Parts
<1> HIDE DEF k, m
<1>3. v * a = k * (c * a) + m * a
  BY <1>1, <1>2
<1>4. m * a \in Int /\ 0 <= m * a /\ m * a + a <= c * a /\ c * a \in Nat
  <2> DEFINE e == c - (m + 1)
  <2>1. e \in Nat /\ c = e + (m + 1)
    BY <1>1, <1>2
  <2> HIDE DEF e
  <2>2. c * a = e * a + (m * a + a) /\ e * a \in Nat /\ m * a \in Nat
    BY <1>1, <1>2, <2>1
  <2> DEFINE ea == e * a
             ma == m * a
             ca == c * a
  <2>3. ca = ea + (ma + a) /\ ea \in Nat /\ ma \in Nat
    BY <2>2
  <2> HIDE DEF ea, ma, ca
  <2>4. ma \in Int /\ 0 <= ma /\ ma + a <= ca /\ ca \in Nat
    BY <1>1, <2>3
  <2> QED BY <2>4 DEF ma, ca
<1> DEFINE ma == m * a
           ca == c * a
<1>5. ma \in Int /\ 0 <= ma /\ ma < ca /\ ca \in Nat /\ ca > 0 /\ v * a = k * ca + ma
  <2>1. ma \in Int /\ 0 <= ma /\ ma + a <= ca /\ ca \in Nat /\ v * a = k * ca + ma
    BY <1>3, <1>4
  <2> HIDE DEF ma, ca
  <2> QED BY <1>1, <2>1
<1> HIDE DEF ma, ca
<1>6. (k * ca + ma) % ca = ma
  BY <1>2, <1>5, Quotient
<1>7. Shl(v, n, b) = ma
  BY <1>1, <1>5, <1>6 DEF Shl, a, ca
<1>8. ma + a <= Pow2(b)
  BY <1>1, <1>4 DEF ma
<1> QED BY <1>5, <1>7, <1>8 DEF ma, a, m, c

\* A left shift by more.
LEMMA ShlGone ==
    ASSUME NEW b \in Nat, NEW n \in Nat, n >= b, NEW v \in Nat
    PROVE  Shl(v, n, b) = 0
<1> DEFINE c == Pow2(b)
           a == Pow2(n - b)
           k == v * a
<1>1. n - b \in Nat /\ (n - b) + b = n
  OBVIOUS
<1>2. a \in Nat /\ c \in Nat /\ c > 0 /\ Pow2(n) = a * c
  BY <1>1, PowSum, PowPositive
<1> HIDE DEF a, c
<1>3. k \in Int /\ v * (a * c) = k * c + 0
  BY <1>2
<1> HIDE DEF k
<1>4. (k * c + 0) % c = 0
  BY <1>2, <1>3, Quotient
<1> QED BY <1>2, <1>3, <1>4 DEF Shl, c

\* The bits of a number shifted left.
LEMMA ShlBits ==
    ASSUME NEW b \in Nat, NEW n \in Nat, NEW v \in Nat, NEW i \in 0 .. b - 1
    PROVE  BitAt(Shl(v, n, b), i) = IF i >= n THEN BitAt(v, i - n) ELSE 0
<1>0. i \in Nat /\ i < b
  OBVIOUS
<1>1. CASE n <= b
  <2> DEFINE m == v % Pow2(b - n)
  <2>1. n \in 0 .. b /\ b - n \in Nat
    BY <1>1
  <2>2. Pow2(n) \in Nat /\ Pow2(n) > 0 /\ Pow2(b - n) \in Nat /\ Pow2(b - n) > 0
    BY <2>1, PowPositive
  <2>3. m \in Int /\ Shl(v, n, b) = m * Pow2(n)
    <3>1. Shl(v, n, b) = (v % Pow2(b - n)) * Pow2(n)
      BY <2>1, ShlForm, Zenon
    <3> QED BY <2>2, <3>1
  <2>4. i < n => BitAt(0, i) = 0
    BY <1>0, BitRange
  <2>5. i >= n => BitAt(m, i - n) = BitAt(v, i - n)
    <3> SUFFICES ASSUME i >= n PROVE BitAt(m, i - n) = BitAt(v, i - n)
      OBVIOUS
    <3>1. i - n \in Nat /\ i - n < b - n
      BY <1>0
    <3> QED BY <2>1, <3>1, BitsCut
  <2> HIDE DEF m
  <2>6. m * Pow2(n) = m * Pow2(n) + 0
    BY <2>2, <2>3
  <2>7. BitAt(m * Pow2(n) + 0, i) = IF i < n THEN BitAt(0, i) ELSE BitAt(m, i - n)
    <3>1. 0 \in Int /\ 0 <= 0 /\ 0 < Pow2(n)
      BY <2>2
    <3> QED BY <1>0, <2>3, <3>1, BitsOfParts, Zenon
  <2> QED BY <1>0, <2>3, <2>4, <2>5, <2>6, <2>7
<1>2. CASE ~(n <= b)
  <2>1. Shl(v, n, b) = 0
    BY <1>2, ShlGone
  <2>2. BitAt(0, i) = 0
    BY <1>0, BitRange
  <2> QED BY <1>0, <1>2, <2>1, <2>2
<1> QED BY <1>1, <1>2

\* A number turned by n places to the left.
Turned(v, n, b) == (v % Pow2(b - n)) * Pow2(n) + (v \div Pow2(b - n))

\* It fits, and bit i was n places below.
LEMMA TurnedBits ==
    ASSUME NEW b \in Nat, NEW n \in 0 .. b, NEW v \in 0 .. Pow2(b) - 1
    PROVE  /\ Turned(v, n, b) \in 0 .. Pow2(b) - 1
           /\ \A i \in 0 .. b - 1 :
                BitAt(Turned(v, n, b), i) = BitAt(v, IF i >= n THEN i - n ELSE (i - n) + b)
<1> DEFINE a == Pow2(n)
           c == Pow2(b - n)
           m == v % c
           h == v \div c
<1>1. /\ n \in Nat /\ b - n \in Nat /\ a \in Nat /\ a > 0 /\ c \in Nat /\ c > 0
      /\ Pow2(b) = c * a /\ Pow2(b) \in Nat
  BY PowSplit
<1>0. v \in Nat /\ v < Pow2(b)
  BY <1>1
<1>2. m \in Int /\ h \in Int
  BY <1>0, <1>1
<1>3. h \in Nat /\ h < a
  <2>1. v < a * c
    BY <1>0, <1>1
  <2> QED BY <1>0, <1>1, <2>1, QuotientBound
<1>4. Shl(v, n, b) = m * a /\ m * a \in Nat /\ m * a + a <= Pow2(b)
  BY <1>0, ShlForm
<1>5. Turned(v, n, b) = m * a + h
  BY DEF Turned
<1>6. ASSUME NEW i \in 0 .. b - 1
      PROVE  BitAt(m * a + h, i) = BitAt(v, IF i >= n THEN i - n ELSE (i - n) + b)
  <2>0. i \in Nat /\ i < b
    BY <1>1
  <2>1. BitAt(m * a + h, i) = IF i < n THEN BitAt(h, i) ELSE BitAt(m, i - n)
    <3> HIDE DEF m, h
    <3>1. 0 <= h /\ h < Pow2(n)
      BY <1>3 DEF a
    <3> QED BY <2>0, <1>1, <1>2, <3>1, BitsOfParts, Zenon
  <2>2. BitAt(h, i) = BitAt(v, i + (b - n)) /\ i + (b - n) = (i - n) + b
    BY <2>0, <1>0, <1>1, BitsCut
  <2>3. i >= n => BitAt(m, i - n) = BitAt(v, i - n)
    <3> SUFFICES ASSUME i >= n PROVE BitAt(m, i - n) = BitAt(v, i - n)
      OBVIOUS
    <3>1. i - n \in Nat /\ i - n < b - n
      BY <2>0, <1>1
    <3> QED BY <3>1, <1>0, <1>1, BitsCut
  <2> HIDE DEF m, h
  <2> QED BY <2>0, <1>1, <2>1, <2>2, <2>3
<1> DEFINE ma == m * a
<1>7. ma + h \in 0 .. Pow2(b) - 1
  <2>1. ma \in Nat /\ ma + a <= Pow2(b)
    BY <1>4
  <2> HIDE DEF ma, h
  <2> QED BY <1>1, <1>3, <2>1
<1> QED BY <1>5, <1>6, <1>7

-------------------------------------------------------------------------------
(* What a shift does to the bits.                                            *)

\* The kinds of shifts, those to the left, and the subcodes that are implemented.
Left == {"rol", "shl"}
ShiftNames == {"rol", "ror", "shl", "shr", "sar"}
ShiftRegs == {0, 1, 4, 5, 6, 7}

\* How far bit i is from the bit it was before.
Move(name, t) == IF name \in Left THEN -t ELSE t

\* The number r is x moved by t places.
Shows(name, x, r, t, b) ==
    \A i \in 0 .. b - 1 : BitAt(r, i) = Endless(name, x, i + Move(name, t), b)

\* Endless, case by case.
LEMMA EndlessCases ==
    ASSUME NEW x, NEW i, NEW b
    PROVE  /\ \A name \in {"rol", "ror"} : Endless(name, x, i, b) = BitAt(x, i % b)
           /\ \A name \in {"shl", "shr"} :
                Endless(name, x, i, b) = IF i \in 0 .. b - 1 THEN BitAt(x, i) ELSE 0
           /\ Endless("sar", x, i, b) = IF i >= b THEN BitAt(x, b - 1)
                                        ELSE IF i >= 0 THEN BitAt(x, i) ELSE 0
BY DEF Endless

\* The names of the subcodes.
LEMMA NameValues ==
    /\ Name(0) = "rol" /\ Name(1) = "ror" /\ Name(4) = "shl" /\ Name(5) = "shr"
    /\ Name(6) = "shl" /\ Name(7) = "sar"
BY DEF Name, Names

\* The results of the subcodes.
LEMMA ResultCases ==
    ASSUME NEW v, NEW n, NEW b
    PROVE  /\ ShiftResult(0, v, n, b) = Shl(v, n, b) + Shr(v, b - n)
           /\ ShiftResult(1, v, n, b) = Shr(v, n) + (IF n > b THEN 0 ELSE Shl(v, b - n, b))
           /\ ShiftResult(4, v, n, b) = Shl(v, n, b) /\ ShiftResult(6, v, n, b) = Shl(v, n, b)
           /\ ShiftResult(5, v, n, b) = Shr(v, n) /\ ShiftResult(7, v, n, b) = Sar(v, n, b)
<1>1. ShiftResult(0, v, n, b) = Shl(v, n, b) + Shr(v, b - n)
  BY DEF ShiftResult
<1>2. ShiftResult(1, v, n, b) = Shr(v, n) + (IF n > b THEN 0 ELSE Shl(v, b - n, b))
  BY DEF ShiftResult
<1>3. ShiftResult(4, v, n, b) = Shl(v, n, b) /\ ShiftResult(6, v, n, b) = Shl(v, n, b)
  BY DEF ShiftResult
<1>4. ShiftResult(5, v, n, b) = Shr(v, n) /\ ShiftResult(7, v, n, b) = Sar(v, n, b)
  BY DEF ShiftResult
<1> QED BY <1>1, <1>2, <1>3, <1>4

\* The carries of the subcodes.
LEMMA CarryCases ==
    ASSUME NEW v, NEW n, NEW b, NEW r
    PROVE  /\ ShiftCarry(0, v, n, b, r) = (r % 2 = 1)
           /\ ShiftCarry(1, v, n, b, r) = (r \div Pow2(b - 1) = 1)
           /\ \A reg \in {4, 6} : ShiftCarry(reg, v, n, b, r) = (n # 0 /\ Shr(v, b - n) % 2 = 1)
           /\ \A reg \in {5, 7} : ShiftCarry(reg, v, n, b, r) = (n # 0 /\ Shr(v, n - 1) % 2 = 1)
<1>1. ShiftCarry(0, v, n, b, r) = (r % 2 = 1)
  BY DEF ShiftCarry
<1>2. ShiftCarry(1, v, n, b, r) = (r \div Pow2(b - 1) = 1)
  BY DEF ShiftCarry
<1>3. \A reg \in {4, 6} : ShiftCarry(reg, v, n, b, r) = (n # 0 /\ Shr(v, b - n) % 2 = 1)
  BY DEF ShiftCarry
<1>4. \A reg \in {5, 7} : ShiftCarry(reg, v, n, b, r) = (n # 0 /\ Shr(v, n - 1) % 2 = 1)
  BY DEF ShiftCarry
<1> QED BY <1>1, <1>2, <1>3, <1>4

\* The top bit.
LEMMA TopBit ==
    ASSUME NEW b \in Nat, b >= 1, NEW v \in Nat, v < Pow2(b)
    PROVE  /\ b - 1 \in Nat /\ Pow2(b) = 2 * Pow2(b - 1) /\ Pow2(b - 1) \in Nat /\ Pow2(b - 1) > 0
           /\ Pow2(b) \div 2 = Pow2(b - 1)
           /\ BitAt(v, b - 1) = IF v >= Pow2(b - 1) THEN 1 ELSE 0
           /\ BitAt(v, b - 1) = v \div Pow2(b - 1)
<1> DEFINE h == Pow2(b - 1)
<1>1. b - 1 \in Nat /\ (b - 1) + 1 = b
  OBVIOUS
<1>2. Pow2(b) = 2 * h /\ h \in Nat /\ h > 0
  BY <1>1, PowStep, PowPositive
<1>3. BitAt(v, b - 1) = (v \div h) % 2
  BY DEF BitAt
<1>4. Pow2(b) \div 2 = h
  <2> HIDE DEF h
  <2> QED BY <1>2
<1>5. v \div h = IF v >= h THEN 1 ELSE 0
  <2> HIDE DEF h
  <2>1. CASE v >= h
    <3>1. (1 * h + (v - h)) \div h = 1
      <4>1. v - h \in Int /\ 0 <= v - h /\ v - h < h /\ 1 \in Int
        BY <1>2, <2>1
      <4> QED BY <1>2, <4>1, Quotient, Zenon
    <3>2. 1 * h + (v - h) = v
      BY <1>2
    <3> QED BY <2>1, <3>1, <3>2
  <2>2. CASE ~(v >= h)
    <3>1. (0 * h + v) \div h = 0
      <4>1. v \in Int /\ 0 <= v /\ v < h /\ 0 \in Int
        BY <1>2, <2>2
      <4> QED BY <1>2, <4>1, Quotient, Zenon
    <3>2. 0 * h + v = v
      BY <1>2
    <3> QED BY <2>2, <3>1, <3>2
  <2> QED BY <2>1, <2>2
<1> QED BY <1>1, <1>2, <1>3, <1>4, <1>5

\* An arithmetic right shift brings in the sign.
LEMMA SarBits ==
    ASSUME NEW b \in Nat, b >= 1, NEW n \in Nat, NEW v \in Nat, v < Pow2(b)
    PROVE  /\ Sar(v, n, b) \in 0 .. Pow2(b) - 1
           /\ \A i \in 0 .. b - 1 :
                BitAt(Sar(v, n, b), i) = BitAt(v, IF i + n >= b THEN b - 1 ELSE i + n)
<1> DEFINE w == Pow2(b)
           s == ToSigned(v, w)
           t == IF v >= Pow2(b - 1) THEN 1 ELSE 0
           u == -t
           d == s \div Pow2(n)
<1>1. w \in Nat /\ w > 0 /\ Pow2(n) \in Nat /\ Pow2(n) > 0
  BY PowPositive
<1>2. /\ b - 1 \in Nat /\ w \div 2 = Pow2(b - 1) /\ BitAt(v, b - 1) = t
  BY TopBit
<1>3. s = u * w + v /\ s \in Int
  BY <1>1, <1>2 DEF ToSigned
<1>4. u \in Int /\ ((t = 0 /\ u = 0) \/ (t = 1 /\ u = -1)) /\ v \in Int /\ 0 <= v /\ v < w
  <2>1. v \in Int /\ 0 <= v /\ v < w
    OBVIOUS
  <2>2. t = 0 \/ t = 1
    OBVIOUS
  <2>3. u = -t
    OBVIOUS
  <2> HIDE DEF t, u
  <2> QED BY <2>1, <2>2, <2>3
<1> HIDE DEF s, t, w, u
<1>5. d \in Int
  BY <1>1, <1>3
<1>6. Sar(v, n, b) = d % w
  BY DEF Sar, s, w
<1>7. \A j \in Nat : BitAt(s, j) = BitAt(v, IF j >= b THEN b - 1 ELSE j)
  <2> SUFFICES ASSUME NEW j \in Nat PROVE BitAt(s, j) = BitAt(v, IF j >= b THEN b - 1 ELSE j)
    OBVIOUS
  <2>1. BitAt(u * w + v, j) = IF j < b THEN BitAt(v, j) ELSE BitAt(u, j - b)
    BY <1>4, BitsOfParts, Zenon DEF w
  <2>2. j >= b => BitAt(u, j - b) = t
    <3> SUFFICES ASSUME j >= b PROVE BitAt(u, j - b) = t
      OBVIOUS
    <3>1. j - b \in Nat /\ 0 \in Int
      OBVIOUS
    <3>2. BitAt(0, j - b) = 0 /\ BitAt(-1, j - b) = 1
      BY <3>1, BitRange, Zenon
    <3> QED BY <1>4, <3>2, Zenon
  <2> QED BY <1>2, <1>3, <2>1, <2>2
<1>8. ASSUME NEW i \in 0 .. b - 1
      PROVE  BitAt(d % w, i) = BitAt(v, IF i + n >= b THEN b - 1 ELSE i + n)
  <2>1. i \in Nat /\ i < b /\ i + n \in Nat
    OBVIOUS
  <2>2. BitAt(d % w, i) = BitAt(d, i)
    BY <1>5, <2>1, BitsCut DEF w
  <2>3. BitAt(d, i) = BitAt(s, i + n)
    BY <1>3, <2>1, BitsCut
  <2> QED BY <2>1, <2>2, <2>3, <1>7
<1>9. d % w \in 0 .. w - 1
  BY <1>1, <1>5
<1> QED BY <1>6, <1>8, <1>9 DEF w

\* A right shift.
LEMMA ShrFits ==
    ASSUME NEW b \in Nat, NEW n \in Int, NEW v \in Nat, v < Pow2(b)
    PROVE  /\ Shr(v, n) \in Nat /\ Shr(v, n) < Pow2(b)
           /\ n >= 0 => Shr(v, n) = v \div Pow2(n)
<1>1. CASE n < 0
  BY <1>1, PowPositive DEF Shr
<1>2. CASE n >= 0
  <2> DEFINE a == Pow2(n)
  <2>1. n \in Nat /\ a \in Nat /\ a > 0 /\ Pow2(b) \in Nat
    BY <1>2, PowPositive
  <2>2. Shr(v, n) = v \div a
    BY <1>2 DEF Shr
  <2> HIDE DEF a
  <2>3. v < Pow2(b) * a
    <3> DEFINE w == Pow2(b)
    <3>1. w \in Nat /\ v < w
      BY <2>1
    <3> HIDE DEF w
    <3>2. w * a >= w
      BY <2>1, <3>1
    <3>3. w * a \in Nat
      BY <2>1, <3>1
    <3>4. v < w * a
      BY <3>1, <3>2, <3>3
    <3> QED BY <3>4 DEF w
  <2>4. v \div a \in Nat /\ v \div a < Pow2(b)
    BY <2>1, <2>3, QuotientBound
  <2> QED BY <2>2, <2>4, <1>2 DEF a
<1> QED BY <1>1, <1>2

\* A rotate by no more than the width turns the number.
LEMMA Rotates ==
    ASSUME NEW b \in Nat, NEW n \in 0 .. b, NEW v \in Nat, v < Pow2(b)
    PROVE  /\ ShiftResult(0, v, n, b) = Turned(v, n, b)
           /\ ShiftResult(1, v, n, b) = Turned(v, b - n, b)
<1>1. n \in Nat /\ b - n \in 0 .. b /\ b - n \in Nat /\ b - (b - n) = n /\ ~(n > b) /\ ~(b - n < 0) /\ ~(n < 0)
  OBVIOUS
<1>2. /\ Shl(v, n, b) = (v % Pow2(b - n)) * Pow2(n) /\ Shl(v, n, b) \in Nat
      /\ Shl(v, b - n, b) = (v % Pow2(b - (b - n))) * Pow2(b - n) /\ Shl(v, b - n, b) \in Nat
  BY <1>1, ShlForm, Zenon
<1>3. /\ Shr(v, b - n) = v \div Pow2(b - n) /\ Shr(v, n) = v \div Pow2(n)
      /\ Shr(v, b - n) \in Nat /\ Shr(v, n) \in Nat
  <2>1. b - n \in Int /\ n \in Int /\ b - n >= 0 /\ n >= 0
    OBVIOUS
  <2> QED BY <2>1, ShrFits, Zenon
<1>4. ShiftResult(0, v, n, b) = Shl(v, n, b) + Shr(v, b - n)
  BY ResultCases
<1>5. ShiftResult(1, v, n, b) = Shl(v, b - n, b) + Shr(v, n)
  <2>1. ShiftResult(1, v, n, b) = Shr(v, n) + Shl(v, b - n, b)
    BY <1>1, ResultCases
  <2> QED BY <1>2, <1>3, <2>1
<1>6. ShiftResult(0, v, n, b) = Turned(v, n, b)
  BY <1>2, <1>3, <1>4, Zenon DEF Turned
<1>7. ShiftResult(1, v, n, b) = Turned(v, b - n, b)
  BY <1>1, <1>2, <1>3, <1>5 DEF Turned
<1> QED BY <1>6, <1>7

\* Every result fits the operand.
LEMMA ResultFits ==
    ASSUME NEW b \in Nat, b >= 1, NEW n \in Nat, NEW v \in Nat, v < Pow2(b), NEW reg \in ShiftRegs
    PROVE  ShiftResult(reg, v, n, b) \in 0 .. Pow2(b) - 1
<1> DEFINE w == Pow2(b)
<1>1. w \in Nat /\ w > 0 /\ n \in Int /\ b - n \in Int /\ v \in 0 .. w - 1
  BY PowPositive
<1>2. Shr(v, n) \in Nat /\ Shr(v, n) < w /\ Shr(v, b - n) \in Nat /\ Shr(v, b - n) < w
  BY <1>1, ShrFits, Zenon
<1>3. Shl(v, n, b) \in 0 .. w - 1
  <2>1. v * Pow2(n) \in Int
    BY PowPositive
  <2> QED BY <1>1, <2>1 DEF Shl
<1>4. CASE reg \in {0, 1} /\ n <= b
  <2>1. n \in 0 .. b /\ b - n \in 0 .. b
    BY <1>4
  <2>2. Turned(v, n, b) \in 0 .. w - 1 /\ Turned(v, b - n, b) \in 0 .. w - 1
    BY <1>1, <2>1, TurnedBits, Zenon
  <2>3. /\ ShiftResult(0, v, n, b) = Turned(v, n, b)
        /\ ShiftResult(1, v, n, b) = Turned(v, b - n, b)
    BY <2>1, Rotates
  <2> QED BY <1>4, <2>2, <2>3
<1>5. CASE reg = 0 /\ ~(n <= b)
  <2>1. Shl(v, n, b) = 0
    BY <1>5, ShlGone
  <2>2. ShiftResult(0, v, n, b) = Shl(v, n, b) + Shr(v, b - n)
    BY ResultCases
  <2> HIDE DEF w
  <2>3. ShiftResult(0, v, n, b) \in 0 .. w - 1
    BY <1>1, <1>2, <2>1, <2>2
  <2> QED BY <1>5, <2>3 DEF w
<1>6. CASE reg = 1 /\ ~(n <= b)
  <2>1. n > b
    BY <1>6
  <2>2. ShiftResult(1, v, n, b) = Shr(v, n) + 0
    BY <2>1, ResultCases
  <2> HIDE DEF w
  <2>3. ShiftResult(1, v, n, b) \in 0 .. w - 1
    BY <1>1, <1>2, <2>2
  <2> QED BY <1>6, <2>3 DEF w
<1>7. CASE reg \in {4, 6}
  BY <1>3, <1>7, ResultCases
<1>8. CASE reg = 5
  <2>1. Shr(v, n) \in 0 .. w - 1
    <3> HIDE DEF w
    <3> QED BY <1>1, <1>2
  <2> QED BY <1>8, <2>1, ResultCases
<1>9. CASE reg = 7
  BY <1>9, SarBits, ResultCases
<1> QED BY <1>4, <1>5, <1>6, <1>7, <1>8, <1>9 DEF ShiftRegs

\* A position moved by the width is the same position of a rotated number.
LEMMA Around ==
    ASSUME NEW b \in Nat, b >= 1, NEW n \in 0 .. b, NEW i \in 0 .. b - 1
    PROVE  (i - n) % b = IF i >= n THEN i - n ELSE (i - n) + b
<1>1. CASE i >= n
  <2>1. (0 * b + (i - n)) % b = i - n
    <3>1. i - n \in Int /\ 0 <= i - n /\ i - n < b /\ 0 \in Int /\ b > 0
      BY <1>1
    <3> QED BY <3>1, Quotient, Zenon
  <2>2. 0 * b + (i - n) = i - n
    OBVIOUS
  <2> QED BY <1>1, <2>1, <2>2
<1>2. CASE ~(i >= n)
  <2>1. ((-1) * b + ((i - n) + b)) % b = (i - n) + b
    <3>1. (i - n) + b \in Int /\ 0 <= (i - n) + b /\ (i - n) + b < b /\ -1 \in Int /\ b > 0
      BY <1>2
    <3> QED BY <3>1, Quotient, Zenon
  <2>2. (-1) * b + ((i - n) + b) = i - n
    OBVIOUS
  <2> QED BY <1>2, <2>1, <2>2
<1> QED BY <1>1, <1>2

\* One shift moves the operand by its count.
LEMMA ResultBits ==
    ASSUME NEW b \in Nat, b >= 1, NEW n \in Nat, NEW v \in Nat, v < Pow2(b), NEW reg \in ShiftRegs,
           reg \in {0, 1, 7} => n <= b
    PROVE  Shows(Name(reg), v, ShiftResult(reg, v, n, b), n, b)
<1>0. v \in 0 .. Pow2(b) - 1
  BY PowPositive
<1>1. CASE reg = 0
  <2>1. n \in 0 .. b
    BY <1>1
  <2>2. Name(reg) = "rol" /\ ShiftResult(reg, v, n, b) = Turned(v, n, b)
    BY <1>1, <2>1, NameValues, Rotates
  <2>3. ASSUME NEW i \in 0 .. b - 1
        PROVE  BitAt(Turned(v, n, b), i) = Endless("rol", v, i + Move("rol", n), b)
    <3>1. BitAt(Turned(v, n, b), i) = BitAt(v, IF i >= n THEN i - n ELSE (i - n) + b)
      BY <1>0, <2>1, TurnedBits
    <3>2. (i - n) % b = IF i >= n THEN i - n ELSE (i - n) + b
      BY <2>1, Around
    <3>3. i + Move("rol", n) = i - n
      BY DEF Move, Left
    <3>4. Endless("rol", v, i - n, b) = BitAt(v, (i - n) % b)
      BY EndlessCases
    <3> QED BY <3>1, <3>2, <3>3, <3>4
  <2> QED BY <2>2, <2>3 DEF Shows
<1>2. CASE reg = 1
  <2>1. b - n \in 0 .. b /\ n \in 0 .. b
    BY <1>2
  <2>2. Name(reg) = "ror" /\ ShiftResult(reg, v, n, b) = Turned(v, b - n, b)
    BY <1>2, <2>1, NameValues, Rotates
  <2>3. ASSUME NEW i \in 0 .. b - 1
        PROVE  BitAt(Turned(v, b - n, b), i) = Endless("ror", v, i + Move("ror", n), b)
    <3>1. BitAt(Turned(v, b - n, b), i)
            = BitAt(v, IF i >= b - n THEN i - (b - n) ELSE (i - (b - n)) + b)
      BY <1>0, <2>1, TurnedBits, Zenon
    <3>2. (i - (b - n)) % b = IF i >= b - n THEN i - (b - n) ELSE (i - (b - n)) + b
      BY <2>1, Around, Zenon
    <3>3. i + Move("ror", n) = i + n
      BY DEF Move, Left
    <3>4. Endless("ror", v, i + n, b) = BitAt(v, (i + n) % b)
      BY EndlessCases
    <3>5. (i + n) % b = (i - (b - n)) % b
      <4> DEFINE x == i - (b - n)
      <4>1. x \in Int /\ i + n = x + 1 * b /\ 1 \in Int /\ b > 0
        OBVIOUS
      <4> HIDE DEF x
      <4>2. (x + 1 * b) % b = x % b
        BY <4>1, ModMultiple, Zenon
      <4> QED BY <4>1, <4>2 DEF x
    <3> QED BY <3>1, <3>2, <3>3, <3>4, <3>5
  <2> QED BY <2>2, <2>3 DEF Shows
<1>3. CASE reg \in {4, 6}
  <2>1. Name(reg) = "shl" /\ ShiftResult(reg, v, n, b) = Shl(v, n, b)
    BY <1>3, NameValues, ResultCases
  <2>2. ASSUME NEW i \in 0 .. b - 1
        PROVE  BitAt(Shl(v, n, b), i) = Endless("shl", v, i + Move("shl", n), b)
    <3>1. BitAt(Shl(v, n, b), i) = IF i >= n THEN BitAt(v, i - n) ELSE 0
      BY ShlBits
    <3>2. i + Move("shl", n) = i - n /\ (i >= n <=> i - n \in 0 .. b - 1)
      BY DEF Move, Left
    <3>3. Endless("shl", v, i - n, b) = IF i - n \in 0 .. b - 1 THEN BitAt(v, i - n) ELSE 0
      BY EndlessCases
    <3> QED BY <3>1, <3>2, <3>3
  <2> QED BY <2>1, <2>2 DEF Shows
<1>4. CASE reg = 5
  <2>1. Name(reg) = "shr" /\ ShiftResult(reg, v, n, b) = Shr(v, n)
    BY <1>4, NameValues, ResultCases
  <2>2. Shr(v, n) = v \div Pow2(n)
    <3>1. ~(n < 0)
      OBVIOUS
    <3> QED BY <3>1 DEF Shr
  <2>3. ASSUME NEW i \in 0 .. b - 1
        PROVE  BitAt(v \div Pow2(n), i) = Endless("shr", v, i + Move("shr", n), b)
    <3>0. i \in Nat /\ i + n \in Nat
      OBVIOUS
    <3>1. BitAt(v \div Pow2(n), i) = BitAt(v, i + n)
      BY <3>0, BitsCut
    <3>2. i + Move("shr", n) = i + n
      BY DEF Move, Left
    <3>3. Endless("shr", v, i + n, b) = IF i + n \in 0 .. b - 1 THEN BitAt(v, i + n) ELSE 0
      BY EndlessCases
    <3>4. i + n \notin 0 .. b - 1 => BitAt(v, i + n) = 0
      <4>1. i + n \notin 0 .. b - 1 => i + n >= b
        BY <3>0
      <4>2. v \in Int /\ 0 <= v
        OBVIOUS
      <4> QED BY <4>1, <4>2, <3>0, BitsPast, Zenon
    <3> QED BY <3>1, <3>2, <3>3, <3>4
  <2> QED BY <2>1, <2>2, <2>3 DEF Shows
<1>5. CASE reg = 7
  <2>1. Name(reg) = "sar" /\ ShiftResult(reg, v, n, b) = Sar(v, n, b)
    BY <1>5, NameValues, ResultCases
  <2>2. ASSUME NEW i \in 0 .. b - 1
        PROVE  BitAt(Sar(v, n, b), i) = Endless("sar", v, i + Move("sar", n), b)
    <3>1. BitAt(Sar(v, n, b), i) = BitAt(v, IF i + n >= b THEN b - 1 ELSE i + n)
      BY SarBits
    <3>2. i + Move("sar", n) = i + n /\ i + n >= 0
      BY DEF Move, Left
    <3>3. Endless("sar", v, i + n, b) = IF i + n >= b THEN BitAt(v, b - 1)
                                        ELSE IF i + n >= 0 THEN BitAt(v, i + n) ELSE 0
      BY EndlessCases
    <3> QED BY <3>1, <3>2, <3>3
  <2> QED BY <2>1, <2>2 DEF Shows
<1> QED BY <1>1, <1>2, <1>3, <1>4, <1>5 DEF ShiftRegs

\* Where the bit lies that a shift pushes out last.
Out(name, b) == IF name \in Left THEN b ELSE -1

\* CF is the last bit pushed out.
LEMMA CarryBits ==
    ASSUME NEW b \in Nat, b >= 1, NEW n \in Nat, n > 0, NEW v \in Nat, v < Pow2(b),
           NEW reg \in ShiftRegs, reg \in {0, 1, 7} => n <= b
    PROVE  Bit(ShiftCarry(reg, v, n, b, ShiftResult(reg, v, n, b)))
             = Endless(Name(reg), v, Out(Name(reg), b) + Move(Name(reg), n), b)
<1> DEFINE r == ShiftResult(reg, v, n, b)
<1>1. /\ r \in Nat /\ r < Pow2(b) /\ r \in Int
      /\ \A i \in 0 .. b - 1 : BitAt(r, i) = Endless(Name(reg), v, i + Move(Name(reg), n), b)
  <2>1. r \in 0 .. Pow2(b) - 1 /\ Pow2(b) \in Nat
    BY ResultFits, PowPositive
  <2>2. Shows(Name(reg), v, r, n, b)
    BY ResultBits
  <2> HIDE DEF r
  <2> QED BY <2>1, <2>2 DEF Shows
<1>00. 0 \in 0 .. b - 1 /\ b - 1 \in 0 .. b - 1 /\ b - 1 \in Nat
  OBVIOUS
<1> HIDE DEF r
<1>2. CASE reg = 0
  <2>1. Name(reg) = "rol" /\ ShiftCarry(reg, v, n, b, r) = (r % 2 = 1)
    BY <1>2, NameValues, CarryCases
  <2>2. BitAt(r, 0) = r % 2
    <3>1. Pow2(0) = 1 /\ r \div 1 = r
      BY <1>1, PowStep
    <3> QED BY <3>1 DEF BitAt
  <2>3. Bit(r % 2 = 1) = BitAt(r, 0)
    BY <1>1, <2>2, BitRange
  <2>4. BitAt(r, 0) = Endless("rol", v, 0 - n, b)
    <3>1. 0 + Move("rol", n) = 0 - n
      BY DEF Move, Left
    <3> QED BY <1>1, <1>00, <2>1, <3>1
  <2>5. Out("rol", b) + Move("rol", n) = (0 - n) + 1 * b
    BY DEF Out, Move, Left
  <2>6. ((0 - n) + 1 * b) % b = (0 - n) % b
    <3>1. 0 - n \in Int /\ 1 \in Int /\ b > 0
      OBVIOUS
    <3> QED BY <3>1, ModMultiple, Zenon
  <2>7. Endless("rol", v, 0 - n, b) = Endless("rol", v, (0 - n) + 1 * b, b)
    <3>1. \A i : Endless("rol", v, i, b) = BitAt(v, i % b)
      BY EndlessCases, Zenon
    <3>2. /\ Endless("rol", v, 0 - n, b) = BitAt(v, (0 - n) % b)
          /\ Endless("rol", v, (0 - n) + 1 * b, b) = BitAt(v, ((0 - n) + 1 * b) % b)
      BY <3>1, Zenon
    <3> QED BY <2>6, <3>2, Zenon
  <2> QED BY <2>1, <2>3, <2>4, <2>5, <2>7 DEF r
<1>3. CASE reg = 1
  <2>1. Name(reg) = "ror" /\ ShiftCarry(reg, v, n, b, r) = (r \div Pow2(b - 1) = 1)
    BY <1>3, NameValues, CarryCases
  <2>2. BitAt(r, b - 1) = r \div Pow2(b - 1)
    BY <1>1, TopBit
  <2>3. Bit(r \div Pow2(b - 1) = 1) = BitAt(r, b - 1)
    BY <1>1, <1>00, <2>2, BitRange
  <2>4. BitAt(r, b - 1) = Endless("ror", v, (b - 1) + n, b)
    <3>1. Move("ror", n) = n
      BY DEF Move, Left
    <3> QED BY <1>1, <1>00, <2>1, <3>1
  <2>5. Out("ror", b) + Move("ror", n) = n - 1 /\ (b - 1) + n = (n - 1) + 1 * b
    BY DEF Out, Move, Left
  <2>6. ((n - 1) + 1 * b) % b = (n - 1) % b
    <3>1. n - 1 \in Int /\ 1 \in Int /\ b > 0
      OBVIOUS
    <3> QED BY <3>1, ModMultiple, Zenon
  <2>7. Endless("ror", v, n - 1, b) = Endless("ror", v, (n - 1) + 1 * b, b)
    <3>1. \A i : Endless("ror", v, i, b) = BitAt(v, i % b)
      BY EndlessCases, Zenon
    <3>2. /\ Endless("ror", v, n - 1, b) = BitAt(v, (n - 1) % b)
          /\ Endless("ror", v, (n - 1) + 1 * b, b) = BitAt(v, ((n - 1) + 1 * b) % b)
      BY <3>1, Zenon
    <3> QED BY <2>6, <3>2, Zenon
  <2> QED BY <2>1, <2>3, <2>4, <2>5, <2>7 DEF r
<1>4. CASE reg \in {4, 6}
  <2>1. Name(reg) = "shl" /\ ShiftCarry(reg, v, n, b, r) = (n # 0 /\ Shr(v, b - n) % 2 = 1)
    BY <1>4, NameValues, CarryCases
  <2>2. Out("shl", b) + Move("shl", n) = b - n
    BY DEF Out, Move, Left
  <2>3. Endless("shl", v, b - n, b) = IF b - n \in 0 .. b - 1 THEN BitAt(v, b - n) ELSE 0
    BY EndlessCases
  <2>4. CASE n <= b
    <3>1. b - n \in 0 .. b - 1 /\ b - n \in Nat /\ ~(b - n < 0)
      BY <2>4
    <3>2. Shr(v, b - n) % 2 = BitAt(v, b - n)
      BY <3>1 DEF Shr, BitAt
    <3>3. Bit(BitAt(v, b - n) = 1) = BitAt(v, b - n)
      <4>1. v \in Int
        OBVIOUS
      <4> QED BY <3>1, <4>1, BitRange, Zenon
    <3>4. Bit(ShiftCarry(reg, v, n, b, r)) = BitAt(v, b - n)
      BY <2>1, <3>2, <3>3
    <3> QED BY <2>1, <2>2, <2>3, <3>1, <3>4 DEF r
  <2>5. CASE ~(n <= b)
    <3>1. b - n \notin 0 .. b - 1 /\ b - n < 0
      BY <2>5
    <3>2. Shr(v, b - n) % 2 = 0
      BY <3>1 DEF Shr
    <3>3. Bit(ShiftCarry(reg, v, n, b, r)) = 0
      BY <2>1, <3>2 DEF Bit
    <3> QED BY <2>1, <2>2, <2>3, <3>1, <3>3 DEF r
  <2> QED BY <2>4, <2>5
<1>5. CASE reg \in {5, 7}
  <2>1. ShiftCarry(reg, v, n, b, r) = (n # 0 /\ Shr(v, n - 1) % 2 = 1)
    BY <1>5, CarryCases
  <2>2. n - 1 \in Nat /\ ~(n - 1 < 0) /\ n - 1 >= 0 /\ n - 1 \in Int
    OBVIOUS
  <2>3. Shr(v, n - 1) % 2 = BitAt(v, n - 1)
    BY <2>2 DEF Shr, BitAt
  <2>4. Bit(ShiftCarry(reg, v, n, b, r)) = BitAt(v, n - 1)
    <3>1. Bit(BitAt(v, n - 1) = 1) = BitAt(v, n - 1)
      <4>1. v \in Int
        OBVIOUS
      <4> QED BY <2>2, <4>1, BitRange, Zenon
    <3> QED BY <2>1, <2>3, <3>1
  <2>5. CASE reg = 5
    <3>1. Name(reg) = "shr" /\ Out("shr", b) + Move("shr", n) = n - 1
      BY <2>5, NameValues DEF Out, Move, Left
    <3>2. Endless("shr", v, n - 1, b) = IF n - 1 \in 0 .. b - 1 THEN BitAt(v, n - 1) ELSE 0
      BY EndlessCases
    <3>3. n - 1 \notin 0 .. b - 1 => BitAt(v, n - 1) = 0
      <4>1. n - 1 \notin 0 .. b - 1 => n - 1 >= b
        BY <2>2
      <4>2. v \in Int /\ 0 <= v
        OBVIOUS
      <4> QED BY <4>1, <4>2, <2>2, BitsPast, Zenon
    <3> QED BY <2>4, <3>1, <3>2, <3>3 DEF r
  <2>6. CASE reg = 7
    <3>1. Name(reg) = "sar" /\ Out("sar", b) + Move("sar", n) = n - 1
      BY <2>6, NameValues DEF Out, Move, Left
    <3>2. Endless("sar", v, n - 1, b) = IF n - 1 >= b THEN BitAt(v, b - 1)
                                        ELSE IF n - 1 >= 0 THEN BitAt(v, n - 1) ELSE 0
      BY EndlessCases
    <3>3. ~(n - 1 >= b)
      BY <2>6
    <3> QED BY <2>2, <2>4, <3>1, <3>2, <3>3 DEF r
  <2> QED BY <1>5, <2>5, <2>6
<1> QED BY <1>2, <1>3, <1>4, <1>5 DEF ShiftRegs

\* Reading a moved number is reading the number it was moved from.
LEMMA EndlessTwice ==
    ASSUME NEW b \in Nat, b >= 1, NEW t \in Nat, NEW x, NEW v, NEW name \in ShiftNames,
           Shows(name, x, v, t, b), NEW j \in Int,
           name = "shl" => j < b, name \in {"shr", "sar"} => j >= 0
    PROVE  Endless(name, v, j, b) = Endless(name, x, j + Move(name, t), b)
<1>0. \A i \in 0 .. b - 1 : BitAt(v, i) = Endless(name, x, i + Move(name, t), b)
  BY DEF Shows
<1>1. CASE name \in {"rol", "ror"}
  <2> DEFINE m == Move(name, t)
             k == j % b
             d == j \div b
  <2>1. m \in Int /\ b > 0
    BY DEF Move
  <2>2. k \in Int /\ 0 <= k /\ k < b /\ d \in Int /\ j = d * b + k
    BY <2>1, Parts
  <2>3. \A y, i : Endless(name, y, i, b) = BitAt(y, i % b)
    <3> TAKE y, i
    <3> QED BY <1>1, EndlessCases
  <2>4. k \in 0 .. b - 1
    BY <2>2
  <2>5. BitAt(v, k) = Endless(name, x, k + m, b)
    BY <1>0, <2>4
  <2>6. Endless(name, v, j, b) = BitAt(v, k)
    BY <2>3
  <2> HIDE DEF k, d, m
  <2>7. (j + m) % b = (k + m) % b
    <3>1. k + m \in Int /\ j + m = (k + m) + d * b
      <4> DEFINE db == d * b
      <4>1. db \in Int /\ j = db + k
        BY <2>2
      <4> HIDE DEF db
      <4>2. k + m \in Int /\ j + m = (k + m) + db
        BY <2>1, <2>2, <4>1
      <4> QED BY <4>2 DEF db
    <3>2. ((k + m) + d * b) % b = (k + m) % b
      BY <2>1, <2>2, <3>1, ModMultiple, Zenon
    <3> QED BY <3>1, <3>2
  <2>8. Endless(name, x, k + m, b) = BitAt(x, (k + m) % b) /\ Endless(name, x, j + m, b) = BitAt(x, (j + m) % b)
    BY <2>3
  <2> QED BY <2>5, <2>6, <2>7, <2>8 DEF m
<1>2. CASE name = "shl"
  <2>1. \A y, i : Endless(name, y, i, b) = IF i \in 0 .. b - 1 THEN BitAt(y, i) ELSE 0
    <3> TAKE y, i
    <3> QED BY <1>2, EndlessCases
  <2>2. j \notin 0 .. b - 1 => j + Move(name, t) \notin 0 .. b - 1
    BY <1>2 DEF Move, Left
  <2>3. CASE j \in 0 .. b - 1
    BY <1>0, <2>1, <2>3
  <2>4. CASE j \notin 0 .. b - 1
    BY <2>1, <2>2, <2>4
  <2> QED BY <2>3, <2>4
<1>3. CASE name = "shr"
  <2>1. \A y, i : Endless(name, y, i, b) = IF i \in 0 .. b - 1 THEN BitAt(y, i) ELSE 0
    <3> TAKE y, i
    <3> QED BY <1>3, EndlessCases
  <2>2. j \notin 0 .. b - 1 => j + Move(name, t) \notin 0 .. b - 1
    BY <1>3 DEF Move, Left
  <2>3. CASE j \in 0 .. b - 1
    BY <1>0, <2>1, <2>3
  <2>4. CASE j \notin 0 .. b - 1
    BY <2>1, <2>2, <2>4
  <2> QED BY <2>3, <2>4
<1>4. CASE name = "sar"
  <2>1. \A y, i : Endless(name, y, i, b) = IF i >= b THEN BitAt(y, b - 1)
                                           ELSE IF i >= 0 THEN BitAt(y, i) ELSE 0
    <3> TAKE y, i
    <3> QED BY <1>4, EndlessCases
  <2>2. Move(name, t) = t
    BY <1>4 DEF Move, Left
  <2>3. CASE j < b
    <3>1. j \in 0 .. b - 1 /\ ~(j >= b) /\ j >= 0
      BY <1>4, <2>3
    <3> QED BY <1>0, <2>1, <3>1
  <2>4. CASE ~(j < b)
    <3>1. j >= b /\ j + t >= b /\ b - 1 \in 0 .. b - 1
      BY <2>4
    <3>2. BitAt(v, b - 1) = Endless(name, x, (b - 1) + t, b)
      BY <1>0, <2>2, <3>1
    <3>3. Endless(name, x, (b - 1) + t, b) = BitAt(x, b - 1)
      <4>1. CASE t = 0
        <5>1. (b - 1) + t = b - 1 /\ ~(b - 1 >= b) /\ b - 1 >= 0
          BY <4>1
        <5> QED BY <2>1, <5>1
      <4>2. CASE t # 0
        <5>1. (b - 1) + t >= b
          BY <4>2
        <5> QED BY <2>1, <5>1
      <4> QED BY <4>1, <4>2
    <3> QED BY <2>1, <2>2, <3>1, <3>2, <3>3
  <2> QED BY <2>3, <2>4
<1> QED BY <1>1, <1>2, <1>3, <1>4 DEF ShiftNames

\* Nothing moved.
LEMMA ShowsSelf ==
    ASSUME NEW b \in Nat, b >= 1, NEW x, NEW name \in ShiftNames
    PROVE  Shows(name, x, x, 0, b)
<1> SUFFICES ASSUME NEW i \in 0 .. b - 1
             PROVE  BitAt(x, i) = Endless(name, x, i + Move(name, 0), b)
  BY DEF Shows
<1>1. i + Move(name, 0) = i /\ ~(i >= b) /\ i >= 0
  BY DEF Move
<1>2. i % b = i
  OBVIOUS
<1> QED BY <1>1, <1>2, EndlessCases DEF ShiftNames

\* One more shift of the same kind.
LEMMA ShowsMore ==
    ASSUME NEW b \in Nat, b >= 1, NEW t \in Nat, NEW n \in Nat, NEW x, NEW v, NEW r,
           NEW name \in ShiftNames, Shows(name, x, v, t, b), Shows(name, v, r, n, b)
    PROVE  Shows(name, x, r, t + n, b)
<1> SUFFICES ASSUME NEW i \in 0 .. b - 1
             PROVE  BitAt(r, i) = Endless(name, x, i + Move(name, t + n), b)
  BY DEF Shows
<1> DEFINE j == i + Move(name, n)
<1>1. BitAt(r, i) = Endless(name, v, j, b)
  BY DEF Shows
<1>2. j \in Int /\ (name = "shl" => j < b) /\ (name \in {"shr", "sar"} => j >= 0)
  BY DEF Move, Left
<1>3. j + Move(name, t) = i + Move(name, t + n)
  BY DEF Move
<1> HIDE DEF j
<1>4. Endless(name, v, j, b) = Endless(name, x, j + Move(name, t), b)
  BY <1>2, EndlessTwice
<1> QED BY <1>1, <1>3, <1>4

\* The bit it pushes out.
LEMMA OutMore ==
    ASSUME NEW b \in Nat, b >= 1, NEW t \in Nat, NEW n \in Nat, n > 0, NEW x, NEW v,
           NEW name \in ShiftNames, Shows(name, x, v, t, b)
    PROVE  Endless(name, v, Out(name, b) + Move(name, n), b)
             = Endless(name, x, Out(name, b) + Move(name, t + n), b)
<1> DEFINE j == Out(name, b) + Move(name, n)
<1>2. j \in Int /\ (name = "shl" => j < b) /\ (name \in {"shr", "sar"} => j >= 0)
  BY DEF Move, Left, Out
<1>3. j + Move(name, t) = Out(name, b) + Move(name, t + n)
  BY DEF Move, Out
<1> HIDE DEF j
<1>4. Endless(name, v, j, b) = Endless(name, x, j + Move(name, t), b)
  BY <1>2, EndlessTwice
<1> QED BY <1>3, <1>4 DEF j

-------------------------------------------------------------------------------
(* Signed numbers, products and quotients.                                   *)

\* A register read as a signed number, and a signed number put into one.
LEMMA SignedForm ==
    ASSUME NEW h \in Nat, h > 0, NEW w, w = 2 * h
    PROVE  /\ \A x \in 0 .. w - 1 : /\ ToSigned(x, w) \in -h .. h - 1
                                    /\ ToSigned(x, w) % w = x
           /\ \A x \in -h .. h - 1 : ToSigned(x % w, w) = x
<1>0. w \in Nat /\ w > 0 /\ w \div 2 = h
  OBVIOUS
<1>1. ASSUME NEW x \in 0 .. w - 1
      PROVE  ToSigned(x, w) \in -h .. h - 1 /\ ToSigned(x, w) % w = x
  <2>1. CASE x >= h
    <3>1. ToSigned(x, w) = x - w
      BY <1>0, <2>1 DEF ToSigned
    <3>2. ((-1) * w + x) % w = x
      <4>1. x \in Int /\ 0 <= x /\ x < w /\ -1 \in Int
        BY <1>0
      <4> QED BY <1>0, <4>1, Quotient, Zenon
    <3>3. (-1) * w + x = x - w
      BY <1>0
    <3> QED BY <1>0, <2>1, <3>1, <3>2, <3>3
  <2>2. CASE ~(x >= h)
    <3>1. ToSigned(x, w) = x
      BY <1>0, <2>2 DEF ToSigned
    <3>2. x % w = x
      BY <1>0
    <3> QED BY <1>0, <2>2, <3>1, <3>2
  <2> QED BY <2>1, <2>2
<1>2. ASSUME NEW x \in -h .. h - 1
      PROVE  ToSigned(x % w, w) = x
  <2>1. CASE x < 0
    <3>1. ((-1) * w + (x + w)) % w = x + w
      <4>1. x + w \in Int /\ 0 <= x + w /\ x + w < w /\ -1 \in Int
        BY <1>0, <2>1
      <4> QED BY <1>0, <4>1, Quotient, Zenon
    <3>2. (-1) * w + (x + w) = x
      BY <1>0
    <3>3. x % w = x + w
      BY <3>1, <3>2
    <3>4. x + w >= h /\ (x + w) - w = x
      BY <1>0
    <3> QED BY <1>0, <3>3, <3>4 DEF ToSigned
  <2>2. CASE ~(x < 0)
    <3>1. x % w = x /\ ~(x >= h)
      BY <1>0, <2>2
    <3> QED BY <1>0, <3>1 DEF ToSigned
  <2> QED BY <2>1, <2>2
<1> QED BY <1>1, <1>2

\* The product of two numbers of h values on either side.
LEMMA SignedProduct ==
    ASSUME NEW h \in Nat, h > 0, NEW s \in -h .. h - 1, NEW t \in -h .. h - 1
    PROVE  s * t \in -(2 * (h * h)) .. 2 * (h * h) - 1
<1> DEFINE p == s * t
           k == h * h
<1>1. k \in Nat /\ k > 0 /\ p \in Int /\ s \in Int /\ t \in Int /\ -h <= s /\ s <= h /\ -h <= t /\ t <= h
  OBVIOUS
<1>2. p <= k /\ -k <= p
  <2> DEFINE a == (h - s) * (h + t)
             b == (h + s) * (h - t)
             c == (h - s) * (h - t)
             d == (h + s) * (h + t)
  <2>1. a >= 0 /\ b >= 0 /\ c >= 0 /\ d >= 0
    <3> DEFINE hs == h - s
               ht == h - t
               hp == h + s
               hq == h + t
    <3>1. hs \in Nat /\ ht \in Nat /\ hp \in Nat /\ hq \in Nat
      OBVIOUS
    <3> HIDE DEF hs, ht, hp, hq
    <3>2. hs * hq >= 0 /\ hp * ht >= 0 /\ hs * ht >= 0 /\ hp * hq >= 0
      BY <3>1
    <3> QED BY <3>2 DEF hs, ht, hp, hq
  <2>2. a + b = 2 * k - 2 * p /\ c + d = 2 * k + 2 * p
    OBVIOUS
  <2>3. a \in Int /\ b \in Int /\ c \in Int /\ d \in Int
    OBVIOUS
  <2> HIDE DEF a, b, c, d, k, p
  <2> QED BY <1>1, <2>1, <2>2, <2>3
<1>3. 2 * (h * h) = 2 * k
  OBVIOUS
<1> HIDE DEF p, k
<1>4. p \in -(2 * k) .. 2 * k - 1
  BY <1>1, <1>2
<1> QED BY <1>3, <1>4 DEF p, k

\* The absolute value.
Size(x) == IF x < 0 THEN -x ELSE x

\* Division of integers of either sign as C does it.
LEMMA TruncForm ==
    ASSUME NEW a \in Int, NEW d \in Int, d # 0
    PROVE  /\ TruncDiv(a, d) \in Int /\ TruncMod(a, d) \in Int
           /\ a = TruncDiv(a, d) * d + TruncMod(a, d)
           /\ Size(TruncMod(a, d)) < Size(d)
           /\ TruncMod(a, d) # 0 => (TruncMod(a, d) < 0 <=> a < 0)
           /\ Size(TruncDiv(a, d)) * Size(d) <= Size(a)
           /\ TruncDiv(a, d) # 0 => (TruncDiv(a, d) < 0 <=> ~((a < 0) = (d < 0)))
<1> DEFINE aa == Size(a)
           dd == Size(d)
           p == aa \div dd
           m == aa % dd
           q == TruncDiv(a, d)
           r == TruncMod(a, d)
<1>1. aa \in Nat /\ dd \in Nat /\ dd > 0 /\ (a = aa \/ a = -aa) /\ (d = dd \/ d = -dd)
      /\ (a < 0 <=> a # aa) /\ (d < 0 <=> d # dd)
  BY DEF Size
<1>2. p \in Int /\ m \in Int /\ 0 <= m /\ m < dd /\ aa = p * dd + m
  BY <1>1, Parts
<1>3. p \in Nat
  BY <1>1
<1>4. q = IF (a < 0) = (d < 0) THEN p ELSE -p
  BY DEF TruncDiv, Size
<1>5. r = a - d * q
  BY DEF TruncMod
<1> HIDE DEF aa, dd, p, m
<1>6. q \in Int /\ r \in Int /\ (q # 0 => (q < 0 <=> ~((a < 0) = (d < 0)))) /\ Size(q) = p
  <2>1. q \in Int /\ (q # 0 => (q < 0 <=> ~((a < 0) = (d < 0)))) /\ (q = p \/ q = -p)
    BY <1>3, <1>4
  <2> HIDE DEF q, r
  <2>2. r \in Int
    BY <1>5, <2>1
  <2> QED BY <1>3, <2>1, <2>2 DEF Size
<1> DEFINE pd == p * dd
<1>7. pd \in Int /\ aa = pd + m
  BY <1>1, <1>2
<1>8. d * q = IF a < 0 THEN -pd ELSE pd
  <2>1. dd * p = pd /\ dd * (-p) = -pd /\ (-dd) * p = -pd /\ (-dd) * (-p) = pd
    BY <1>1, <1>3
  <2> HIDE DEF pd, q
  <2> QED BY <1>1, <1>4, <2>1
<1>9. r = IF a < 0 THEN -m ELSE m
  <2> HIDE DEF pd, q, r
  <2> QED BY <1>1, <1>2, <1>5, <1>7, <1>8
<1>10. a = q * d + r
  <2>1. q * d = d * q
    BY <1>6
  <2> HIDE DEF pd, q, r
  <2> QED BY <1>5, <1>6, <2>1
<1>11. Size(r) < Size(d) /\ (r # 0 => (r < 0 <=> a < 0))
  <2> HIDE DEF r
  <2>1. Size(r) = m
    BY <1>2, <1>9 DEF Size
  <2> QED BY <1>2, <1>9, <2>1 DEF dd
<1>12. p * dd <= aa
  <2> HIDE DEF pd
  <2>1. pd <= aa
    BY <1>1, <1>2, <1>7
  <2> QED BY <2>1 DEF pd
<1> QED BY <1>6, <1>10, <1>11, <1>12 DEF aa, dd

\* A multiple is divided without remainder.
LEMMA TruncExact ==
    ASSUME NEW s \in Int, NEW d \in Int, d # 0
    PROVE  TruncDiv(s * d, d) = s /\ TruncMod(s * d, d) = 0
<1> DEFINE a == s * d
           q == TruncDiv(a, d)
           r == TruncMod(a, d)
           e == s - q
<1>1. a \in Int
  OBVIOUS
<1>2. q \in Int /\ r \in Int /\ a = q * d + r /\ Size(r) < Size(d)
  BY <1>1, TruncForm, Zenon
<1> HIDE DEF q, r
<1>3. e \in Int /\ r = e * d
  BY <1>2
<1> HIDE DEF e
<1>4. e = 0
  <2>1. CASE e >= 1 /\ d > 0
    <3>1. e * d >= d
      BY <1>3, <2>1
    <3> QED BY <1>2, <1>3, <2>1, <3>1 DEF Size
  <2>2. CASE e >= 1 /\ d < 0
    <3>1. e * d <= d
      BY <1>3, <2>2
    <3> QED BY <1>2, <1>3, <2>2, <3>1 DEF Size
  <2>3. CASE e <= -1 /\ d > 0
    <3>1. e * d <= -d
      BY <1>3, <2>3
    <3> QED BY <1>2, <1>3, <2>3, <3>1 DEF Size
  <2>4. CASE e <= -1 /\ d < 0
    <3>1. e * d >= -d
      BY <1>3, <2>4
    <3> QED BY <1>2, <1>3, <2>4, <3>1 DEF Size
  <2> QED BY <1>3, <2>1, <2>2, <2>3, <2>4
<1>5. r = 0 /\ q = s
  BY <1>2, <1>3, <1>4 DEF e
<1> QED BY <1>5 DEF q, r, a

\* The quotient of two signed words is one, but for the most negative by -1.
LEMMA TruncFits ==
    ASSUME NEW h \in Nat, h > 0, NEW a \in -h .. h - 1, NEW d \in -h .. h - 1, d # 0
    PROVE  /\ TruncMod(a, d) \in -h .. h - 1
           /\ (a = -h /\ d = -1) \/ TruncDiv(a, d) \in -h .. h - 1
<1> DEFINE q == TruncDiv(a, d)
           r == TruncMod(a, d)
<1>1. a \in Int /\ d \in Int
  OBVIOUS
<1>2. /\ q \in Int /\ r \in Int /\ Size(r) < Size(d) /\ Size(q) * Size(d) <= Size(a)
      /\ q # 0 => (q < 0 <=> ~((a < 0) = (d < 0)))
  BY <1>1, TruncForm, Zenon
<1> HIDE DEF q, r
<1>3. r \in -h .. h - 1
  BY <1>2 DEF Size
<1> DEFINE qq == Size(q)
           dd == Size(d)
           aa == Size(a)
           x == qq * dd
<1>4. /\ qq \in Nat /\ dd \in Nat /\ dd >= 1 /\ aa \in Nat /\ aa <= h /\ x <= aa
      /\ (q = qq \/ q = -qq)
  BY <1>1, <1>2 DEF Size
<1>5. (dd = 1 => d = 1 \/ d = -1) /\ (aa = h => a = -h)
  BY <1>1 DEF Size
<1> HIDE DEF qq, dd, aa
<1>6. x \in Int /\ x >= qq /\ (dd >= 2 => x >= 2 * qq)
  <2>1. qq * dd \in Int /\ qq * dd >= qq
    BY <1>4
  <2>2. dd >= 2 => qq * dd >= 2 * qq
    BY <1>4
  <2> QED BY <2>1, <2>2
<1> HIDE DEF x
<1>7. qq <= h /\ (qq = h => dd = 1 /\ aa = h)
  BY <1>4, <1>6
<1>8. CASE qq < h
  <2>1. q \in -h .. h - 1
    BY <1>2, <1>4, <1>8
  <2> QED BY <1>3, <2>1 DEF q, r
<1>9. CASE qq = h
  <2>1. a = -h /\ (d = 1 \/ d = -1) /\ q # 0 /\ a < 0
    BY <1>1, <1>2, <1>4, <1>5, <1>7, <1>9
  <2>2. CASE d = 1
    <3>1. q < 0
      BY <1>2, <2>1, <2>2
    <3>2. q \in -h .. h - 1
      BY <1>2, <1>4, <1>9, <3>1
    <3> QED BY <1>3, <3>2 DEF q, r
  <2> QED BY <1>3, <2>1, <2>2 DEF r
<1> QED BY <1>4, <1>7, <1>8, <1>9

-------------------------------------------------------------------------------
(* Or.                                                                       *)

\* The recursive function of Or.
LowBits(x, y) ==
    CHOOSE low : low = [n \in 0 .. 2 * ByteBits |->
                          IF n = 0 THEN 0
                          ELSE low[n - 1] + Pow2(n - 1) * Bit(BitAt(x, n - 1) = 1 \/ BitAt(y, n - 1) = 1)]

\* Or is that function.
LEMMA OrIsLow == ASSUME NEW x, NEW y PROVE Or(x, y) = LowBits(x, y)[2 * ByteBits]
BY DEF Or, LowBits

\* The recursive definition has a solution.
LEMMA LowDefined ==
    ASSUME NEW x, NEW y
    PROVE  LowBits(x, y) =
             [n \in 0 .. 2 * ByteBits |->
                IF n = 0 THEN 0
                ELSE LowBits(x, y)[n - 1]
                       + Pow2(n - 1) * Bit(BitAt(x, n - 1) = 1 \/ BitAt(y, n - 1) = 1)]
<1> DEFINE e(n) == Pow2(n) * Bit(BitAt(x, n) = 1 \/ BitAt(y, n) = 1)
           T == {j \in Nat : \E f : f = [n \in 0 .. j |-> IF n = 0 THEN 0 ELSE f[n - 1] + e(n - 1)]}
<1> HIDE DEF e
<1>1. 0 \in T
  <2> DEFINE f == [n \in 0 .. 0 |-> 0]
  <2>1. f = [n \in 0 .. 0 |-> IF n = 0 THEN 0 ELSE f[n - 1] + e(n - 1)]
    OBVIOUS
  <2>2. QED
    BY <2>1
<1>2. ASSUME NEW j \in Nat, j \in T PROVE j + 1 \in T
  <2>1. PICK f : f = [n \in 0 .. j |-> IF n = 0 THEN 0 ELSE f[n - 1] + e(n - 1)]
    BY <1>2
  <2> DEFINE g == [n \in 0 .. j + 1 |-> IF n = j + 1 THEN f[j] + e(j) ELSE f[n]]
  <2>2. ASSUME NEW n \in 0 .. j + 1
        PROVE  g[n] = IF n = 0 THEN 0 ELSE g[n - 1] + e(n - 1)
    <3>1. CASE n = j + 1
      <4>1. g[n] = f[j] + e(j) /\ n - 1 = j /\ g[j] = f[j] /\ n # 0
        BY <3>1
      <4>2. QED
        BY <4>1
    <3>2. CASE n # j + 1
      <4>1. n \in 0 .. j /\ g[n] = f[n] /\ (n # 0 => g[n - 1] = f[n - 1])
        BY <3>2
      <4>2. QED
        BY <4>1, <2>1
    <3>3. QED
      BY <3>1, <3>2
  <2> HIDE DEF g
  <2>3. g = [n \in 0 .. j + 1 |-> IF n = 0 THEN 0 ELSE g[n - 1] + e(n - 1)]
    BY <2>2 DEF g
  <2>4. \E f1 : f1 = [n \in 0 .. j + 1 |-> IF n = 0 THEN 0 ELSE f1[n - 1] + e(n - 1)]
    BY <2>3, Zenon
  <2>5. j + 1 \in Nat
    OBVIOUS
  <2>6. QED
    BY <2>4, <2>5, Zenon
<1> HIDE DEF T
<1>3. 2 * ByteBits \in T
  <2>1. 2 * ByteBits \in Nat
    BY WideSizes
  <2>2. QED
    BY <1>1, <1>2, <2>1, Induction
<1>4. \E f : f = [n \in 0 .. 2 * ByteBits |-> IF n = 0 THEN 0 ELSE f[n - 1] + e(n - 1)]
  BY <1>3 DEF T
<1>5. QED
  BY <1>4, Zenon DEF LowBits, e

\* Or fits 16 bits, and with nothing it is the number itself.
LEMMA OrForm ==
    ASSUME NEW x \in Int, NEW y \in Int
    PROVE  /\ Or(x, y) \in 0 .. Half - 1
           /\ x = 0 /\ y \in 0 .. Half - 1 => Or(x, y) = y
<1> DEFINE f == LowBits(x, y)
           c(n) == Bit(BitAt(x, n) = 1 \/ BitAt(y, n) = 1)
           m == 2 * ByteBits
           T == {j \in Nat : j <= m => /\ f[j] \in Nat /\ f[j] < Pow2(j)
                                       /\ x = 0 => f[j] = y % Pow2(j)}
<1>0. m \in Nat /\ Pow2(m) = Half
  <2>1. ByteBits \in Nat /\ m = ByteBits + ByteBits /\ m \in Nat
    BY WideSizes
  <2>2. Pow2(ByteBits + ByteBits) = Pow2(ByteBits) * Pow2(ByteBits)
    BY <2>1, PowSum, Zenon
  <2> QED BY <2>1, <2>2, WideSizes
<1>1. f = [n \in 0 .. m |-> IF n = 0 THEN 0 ELSE f[n - 1] + Pow2(n - 1) * c(n - 1)]
  BY LowDefined
<1>2. \A n \in Nat : /\ c(n) = 0 \/ c(n) = 1
                     /\ x = 0 => c(n) = BitAt(y, n)
  <2> TAKE n \in Nat
  <2>1. c(n) = 0 \/ c(n) = 1
    BY DEF Bit
  <2>2. BitAt(0, n) = 0 /\ Bit(BitAt(y, n) = 1) = BitAt(y, n)
    BY BitRange
  <2> QED BY <2>1, <2>2
<1> HIDE DEF f, c, m
<1>3. 0 \in T
  <2>1. f[0] = 0 /\ Pow2(0) = 1
    BY <1>0, <1>1, PowStep
  <2>2. y % 1 = 0
    OBVIOUS
  <2> QED BY <2>1, <2>2
<1>4. ASSUME NEW j \in Nat, j \in T PROVE j + 1 \in T
  <2> SUFFICES ASSUME j + 1 <= m
               PROVE  /\ f[j + 1] \in Nat /\ f[j + 1] < Pow2(j + 1)
                      /\ x = 0 => f[j + 1] = y % Pow2(j + 1)
    OBVIOUS
  <2> DEFINE a == Pow2(j)
             k == f[j]
             l == f[j + 1]
             z == c(j)
  <2>1. k \in Nat /\ k < a /\ (x = 0 => k = y % a) /\ a \in Nat /\ a > 0 /\ Pow2(j + 1) = 2 * a
    BY <1>0, <1>4, PowStep, PowPositive
  <2>2. l = k + a * z
    <3>1. j + 1 \in 0 .. m /\ j + 1 # 0 /\ (j + 1) - 1 = j
      BY <1>0
    <3> QED BY <1>1, <3>1
  <2>3. (z = 0 \/ z = 1) /\ (x = 0 => z = (y \div a) % 2)
    BY <1>2 DEF BitAt
  <2> HIDE DEF a, k, l, z
  <2>4. l \in Nat /\ l < 2 * a
    BY <2>1, <2>2, <2>3
  <2>5. x = 0 => l = y % (2 * a)
    <3> SUFFICES ASSUME x = 0 PROVE l = y % (2 * a)
      OBVIOUS
    <3> DEFINE q == y \div a
               s == q \div 2
               b2 == 2 * a
    <3>1. q \in Int /\ y = q * a + k
      BY <2>1, Parts
    <3> HIDE DEF q
    <3>2. s \in Int /\ q = s * 2 + z
      BY <2>3, <3>1 DEF q
    <3> HIDE DEF s
    <3>3. y = s * b2 + l
      <4>1. (s * 2 + z) * a + k = s * (2 * a) + (k + a * z)
        BY <2>1, <2>3, <3>2
      <4> QED BY <2>2, <3>1, <3>2, <4>1
    <3>4. b2 \in Nat /\ b2 > 0 /\ l \in Int /\ 0 <= l /\ l < b2
      BY <2>1, <2>4
    <3> HIDE DEF b2
    <3>5. (s * b2 + l) % b2 = l
      BY <3>2, <3>4, Quotient, Zenon
    <3> QED BY <3>3, <3>5 DEF b2
  <2> QED BY <2>1, <2>4, <2>5 DEF l
<1> HIDE DEF T
<1>5. m \in T
  BY <1>0, <1>3, <1>4, Induction
<1>6. f[m] \in Nat /\ f[m] < Half /\ (x = 0 => f[m] = y % Half)
  BY <1>0, <1>5 DEF T
<1>7. Or(x, y) = f[m]
  BY OrIsLow DEF f, m
<1>8. Half \in Nat /\ (y \in 0 .. Half - 1 => y % Half = y)
  <2>1. Half \in Nat /\ Half > 0
    BY WideSizes
  <2> QED BY <2>1
<1> QED BY <1>6, <1>7, <1>8

-------------------------------------------------------------------------------
(* The registers.                                                            *)

\* What the proofs use of the widths.
LEMMA WideWidths ==
    /\ ByteBits \in Nat /\ ByteBits >= 1 /\ LongBits \in Nat /\ LongBits >= 1 /\ ByteBits # LongBits
    /\ Byte = Pow2(ByteBits) /\ Long = Pow2(LongBits)
    /\ Byte \in Nat /\ Byte > 0 /\ Half \in Nat /\ Half > 0 /\ Long \in Nat /\ Long > 0
    /\ Byte # Long
<1>1. /\ Byte # Long /\ Byte # 1 /\ Long # 1
      /\ Byte \in Nat /\ Byte > 0 /\ Half \in Nat /\ Half > 0 /\ Long \in Nat /\ Long > 0
  BY WidthAssumption
<1>2. Pow2(0) = 1
  BY PowStep
<1>3. ByteBits # LongBits /\ ByteBits # 0 /\ LongBits # 0
  BY <1>1, <1>2, WideAssumption, Zenon
<1>4. ByteBits \in Nat /\ LongBits \in Nat /\ Byte = Pow2(ByteBits) /\ Long = Pow2(LongBits)
  BY WideAssumption, Zenon
<1> QED BY <1>1, <1>3, <1>4

\* Halves of the widths, and their squares.
LEMMA WideHalves ==
    /\ Byte \div 2 \in Nat /\ Byte \div 2 > 0 /\ Byte = 2 * (Byte \div 2)
    /\ Long \div 2 \in Nat /\ Long \div 2 > 0 /\ Long = 2 * (Long \div 2)
    /\ Half = Byte * Byte
    /\ Half = 2 * (2 * ((Byte \div 2) * (Byte \div 2)))
    /\ Long * Long = 2 * (2 * ((Long \div 2) * (Long \div 2)))
<1> DEFINE b == Byte \div 2
           l == Long \div 2
<1>1. /\ Byte \in Nat /\ Long \in Nat /\ Byte > 0 /\ Long > 0
      /\ b \in Nat /\ l \in Nat /\ 2 * b = Byte /\ 2 * l = Long
  BY WidthAssumption
<1>0. Half = Byte * Byte
  BY WideSizes
<1> HIDE DEF b, l
<1>2. b > 0 /\ l > 0
  BY <1>1
<1>3. (2 * b) * (2 * b) = 2 * (2 * (b * b)) /\ (2 * l) * (2 * l) = 2 * (2 * (l * l))
  BY <1>1
<1> QED BY <1>0, <1>1, <1>2, <1>3 DEF b, l

\* A part put below a multiple of the width: it fits, and both can be read back.
LEMMA Joined ==
    ASSUME NEW w \in Nat, w > 0, NEW k \in Nat, NEW q \in Nat, q < k, NEW v \in 0 .. w - 1
    PROVE  /\ q * w + v \in Nat /\ q * w + v < k * w
           /\ (q * w + v) % w = v /\ (q * w + v) \div w = q
<1>1. q \in Int /\ v \in Int /\ 0 <= v /\ v < w
  OBVIOUS
<1>2. (q * w + v) % w = v /\ (q * w + v) \div w = q
  BY <1>1, Quotient
<1> DEFINE e == k - q
           ew == e * w
           kw == k * w
           qw == q * w
<1>3. e \in Nat /\ e >= 1
  OBVIOUS
<1>4. kw = qw + ew /\ qw \in Nat /\ kw \in Nat
  OBVIOUS
<1>5. ew \in Nat /\ ew >= w
  <2> HIDE DEF e
  <2> QED BY <1>3
<1> HIDE DEF ew, kw, qw
<1>6. qw + v \in Nat /\ qw + v < kw
  BY <1>1, <1>4, <1>5
<1> QED BY <1>2, <1>6 DEF qw, kw

\* The low part of EAX replaced.
LEMMA WithPart ==
    ASSUME NEW w \in {Byte, Half}, NEW v \in 0 .. w - 1, NEW x \in 0 .. Long - 1
    PROVE  /\ (x \div w) * w + v \in 0 .. Long - 1
           /\ ((x \div w) * w + v) % w = v /\ ((x \div w) * w + v) \div w = x \div w
<1>1. w \in Nat /\ w > 0 /\ Long \in Nat /\ x \in Nat /\ x < Long
  BY WideWidths
<1>2. PICK k \in Nat : Long = k * w
  <2>1. CASE w = Half
    BY <2>1, WideSizes
  <2>2. CASE w = Byte
    <3> DEFINE l == Long \div Half
    <3>1. l \in Nat /\ Long = l * Half /\ Half = Byte * Byte /\ Byte \in Nat
      BY WideSizes
    <3> HIDE DEF l
    <3>2. l * Byte \in Nat /\ Long = (l * Byte) * Byte
      BY <3>1
    <3> QED BY <2>2, <3>2
  <2> QED BY <2>1, <2>2
<1> DEFINE q == x \div w
<1>3. q \in Nat /\ q < k
  BY <1>1, <1>2, QuotientBound
<1> HIDE DEF q
<1>4. q * w + v \in Nat /\ q * w + v < k * w /\ (q * w + v) % w = v /\ (q * w + v) \div w = q
  BY <1>1, <1>2, <1>3, Joined, Zenon
<1>5. q * w + v \in 0 .. Long - 1
  <2> DEFINE y == q * w + v
  <2>1. y \in Nat /\ y < Long
    BY <1>2, <1>4
  <2> HIDE DEF y
  <2>2. y \in 0 .. Long - 1
    BY <1>1, <2>1
  <2> QED BY <2>2 DEF y
<1> QED BY <1>4, <1>5 DEF q

\* Two words as one number.
LEMMA TwoWords ==
    ASSUME NEW d \in 0 .. Long - 1, NEW a \in 0 .. Long - 1
    PROVE  /\ d * Long + a \in Nat /\ d * Long + a < Long * Long
           /\ (d * Long + a) % Long = a /\ (d * Long + a) \div Long = d
<1>1. Long \in Nat /\ Long > 0 /\ d \in Nat /\ d < Long
  BY WideWidths
<1> QED BY <1>1, Joined, Zenon

\* A number of two words cut in two.
LEMMA CutInTwo ==
    ASSUME NEW p \in Nat, p < Long * Long
    PROVE  /\ p % Long \in 0 .. Long - 1 /\ (p \div Long) % Long \in 0 .. Long - 1
           /\ ((p \div Long) % Long) * Long + (p % Long) = p
<1>1. Long \in Nat /\ Long > 0
  BY WideWidths
<1> DEFINE q == p \div Long
<1>2. q \in Nat /\ q < Long
  BY <1>1, QuotientBound
<1>3. q % Long = q /\ q \in 0 .. Long - 1
  BY <1>1, <1>2
<1>4. p % Long \in 0 .. Long - 1 /\ p = q * Long + (p % Long)
  BY <1>1, Parts
<1> QED BY <1>3, <1>4

-------------------------------------------------------------------------------
(* The inductive invariant: what the registers hold after each series of     *)
(* instructions.                                                             *)

\* The registers keep their width.
Registers == eax \in 0 .. Long - 1 /\ edx \in 0 .. Long - 1 /\ eflags \in Eflags

\* The register a shift of b bits works on.
Operand(b) == IF b = LongBits THEN eax ELSE al

\* Shifts of one kind have moved the operand by their total.
OfShifts ==
    /\ hist.kind = "shift" /\ hist.bits \in {ByteBits, LongBits} /\ hist.name \in ShiftNames
    /\ hist.total \in Nat /\ hist.last \in Nat
    /\ Shows(hist.name, hist.from, Operand(hist.bits), hist.total, hist.bits)
    /\ hist.last > 0 =>
         eflags.cf = Endless(hist.name, hist.from,
                             Out(hist.name, hist.bits) + Move(hist.name, hist.total), hist.bits)
    /\ hist.name \in {"shl", "shr", "sar"} => eflags.zf = Bit(Operand(hist.bits) = 0)

\* Between SHLD and SHL the low word is still to be shifted.
OfPair ==
    /\ hist \in [kind : {"pair"}, pending : Nat, from : Nat, total : Nat]
    /\ edx * Long + ((eax * Pow2(hist.pending)) % Long)
         = (hist.from * Pow2(hist.total + hist.pending)) % (Long * Long)

\* DIV has divided num so far, and its remainder is below the divisor.
OfDivision ==
    /\ hist \in [kind : {"div"}, by : Nat, num : Nat, quo : Nat, words : Nat]
    /\ hist.num = hist.quo * hist.by + edx /\ edx < hist.by

\* A register as the number a product takes it for.
Number(x, w, signed) == IF signed THEN ToSigned(x, w) ELSE x
Wide(w) == IF w = Long THEN edx * Long + eax ELSE eax % Half

\* EDX:EAX or AX is the product of a and by.
OfProduct ==
    /\ hist.kind = "mul" /\ hist.w \in {Byte, Long} /\ hist.signed \in BOOLEAN
    /\ hist.by \in 0 .. hist.w - 1 /\ hist.a \in 0 .. hist.w - 1
    /\ Number(Wide(hist.w), hist.w * hist.w, hist.signed)
         = Number(hist.a, hist.w, hist.signed) * Number(hist.by, hist.w, hist.signed)
    /\ hist.w = Byte => eax \div Half = hist.high

\* EDX:EAX or AX is the factor a again.
OfQuotient ==
    /\ hist.kind = "undone" /\ hist.w \in {Byte, Long}
    /\ Wide(hist.w) = hist.a
    /\ hist.w = Byte => eax \div Half = hist.high

\* EDX repeats the sign of EAX.
OfCdq == hist.kind = "cdq" /\ edx = IF Sign(eax) THEN Long - 1 ELSE 0

\* EAX and EDX are quotient and remainder as in C.
OfIdiv ==
    /\ hist.kind = "idiv"
    /\ \/ hist.num = -(Long \div 2) /\ hist.by = -1
       \/ /\ hist.num = ToSigned(eax, Long) * hist.by + ToSigned(edx, Long)
          /\ Size(ToSigned(edx, Long)) < Size(hist.by)
          /\ ToSigned(edx, Long) # 0 => (ToSigned(edx, Long) < 0 <=> hist.num < 0)

\* The registers hold the result of the series hist tells of.
Series ==
    \/ hist = NoHist
    \/ OfShifts \/ OfPair \/ OfDivision \/ OfProduct \/ OfQuotient \/ OfCdq \/ OfIdiv

WideInv == WideTypeOK /\ Registers /\ Series

\* The kind of the series tells which part of the invariant applies.
LEMMA SeriesKind ==
    ASSUME Series
    PROVE  /\ hist.kind = "shift" => OfShifts
           /\ hist.kind = "pair" => OfPair
           /\ hist.kind = "div" => OfDivision
           /\ hist.kind = "mul" => OfProduct
           /\ hist.kind = "undone" => OfQuotient
           /\ hist.kind = "cdq" => OfCdq
           /\ hist.kind = "idiv" => OfIdiv
           /\ hist.kind \in {"none", "shift", "pair", "div", "mul", "undone", "cdq", "idiv"}
<1> DEFINE k == hist.kind
<1>1. /\ hist = NoHist => k = "none"
      /\ OfShifts => k = "shift"
      /\ OfPair => k = "pair"
      /\ OfDivision => k = "div"
      /\ OfProduct => k = "mul"
      /\ OfQuotient => k = "undone"
      /\ OfCdq => k = "cdq"
      /\ OfIdiv => k = "idiv"
  BY DEF NoHist, OfShifts, OfPair, OfDivision, OfProduct, OfQuotient, OfCdq, OfIdiv
<1> HIDE DEF k
<1>2. /\ k = "shift" => OfShifts
      /\ k = "pair" => OfPair
      /\ k = "div" => OfDivision
      /\ k = "mul" => OfProduct
      /\ k = "undone" => OfQuotient
      /\ k = "cdq" => OfCdq
      /\ k = "idiv" => OfIdiv
      /\ k \in {"none", "shift", "pair", "div", "mul", "undone", "cdq", "idiv"}
  BY <1>1 DEF Series
<1> QED BY <1>2 DEF k

\* An instruction that changes nothing, or stops the CPU.
LEMMA SeriesKept ==
    ASSUME WideInv, UNCHANGED <<eax, edx, eflags, hist>>
    PROVE  Registers' /\ Series'
BY DEF WideInv, Registers, Series, OfShifts, OfPair, OfDivision, OfProduct, OfQuotient, OfCdq, OfIdiv,
   Operand, al, Wide

-------------------------------------------------------------------------------
(* Division.                                                                 *)

\* One step of DIV, and what it leaves.
LEMMA DivWord ==
    ASSUME NEW d \in 0 .. Long - 1, NEW a \in 0 .. Long - 1, NEW b \in 1 .. Long - 1
    PROVE  LET n == d * Long + a IN
           /\ (n \div b) % Long \in 0 .. Long - 1
           /\ n % b \in 0 .. Long - 1 /\ n % b < b
           /\ d < b => n = ((n \div b) % Long) * b + (n % b)
<1> DEFINE n == d * Long + a
           q == n \div b
           r == n % b
<1>1. Long \in Nat /\ Long > 0 /\ b \in Nat /\ b > 0 /\ b < Long /\ d \in Nat
  BY WideWidths
<1>2. n \in Nat
  BY TwoWords
<1>3. q \in Int /\ r \in Int /\ 0 <= r /\ r < b /\ n = q * b + r
  BY <1>1, <1>2, Parts
<1>4. q % Long \in 0 .. Long - 1 /\ r \in 0 .. Long - 1
  BY <1>1, <1>3
<1>5. d < b => q % Long = q
  <2> SUFFICES ASSUME d < b PROVE q % Long = q
    OBVIOUS
  <2>1. n < b * Long
    <3>1. a \in 0 .. Long - 1
      OBVIOUS
    <3> QED BY <1>1, <3>1, Joined, Zenon
  <2>2. b * Long = Long * b
    BY <1>1
  <2>3. n < Long * b
    BY <2>1, <2>2
  <2>4. q \in Nat /\ q < Long
    BY <1>1, <1>2, <2>3, QuotientBound
  <2> QED BY <1>1, <2>4
<1> QED BY <1>3, <1>4, <1>5

\* DIV gives a factor back.
LEMMA DivFactor ==
    ASSUME NEW w \in Nat, w > 0, NEW a \in 0 .. w - 1, NEW b \in 1 .. w - 1
    PROVE  /\ (a * b) \div b = a /\ (a * b) % b = 0
<1>1. b \in Nat /\ b > 0 /\ a \in Int /\ a * b = a * b + 0 /\ 0 \in Int /\ 0 <= 0 /\ 0 < b
  OBVIOUS
<1>2. (a * b + 0) \div b = a /\ (a * b + 0) % b = 0
  BY <1>1, Quotient, Zenon
<1> QED BY <1>1, <1>2

\* DIV r/m32.
LEMMA DivLongStep ==
    ASSUME WideInv, NEW b \in LongArgs, div_long(b)
    PROVE  Registers' /\ Series'
<1> DEFINE n == edx * Long + eax
           q == (n \div b) % Long
           r == n % b
<1>0. /\ eax \in 0 .. Long - 1 /\ edx \in 0 .. Long - 1 /\ eflags \in Eflags /\ Series
      /\ b \in 0 .. Long - 1 /\ Long \in Nat /\ Long > 0
  BY WidthAssumption, WideWidths DEF WideInv, Registers
<1>1. CASE b = 0 /\ UNCHANGED <<eax, edx, eflags, status, hist>>
  BY <1>1, SeriesKept
<1>2. CASE /\ b # 0 /\ eax' = q /\ edx' = r /\ UNCHANGED <<eflags, status>>
           /\ IF Undoes(Long, FALSE, b) THEN Undone ELSE Divided(b, q)
  <2>1. b \in 1 .. Long - 1 /\ b \in Nat
    BY <1>0, <1>2
  <2>2. q \in 0 .. Long - 1 /\ r \in 0 .. Long - 1 /\ r < b /\ (edx < b => n = q * b + r)
    BY <1>0, <2>1, DivWord, Zenon
  <2>3. n \in Nat
    BY <1>0, TwoWords
  <2> HIDE DEF q, r
  <2>4. Registers'
    BY <1>0, <1>2, <2>2 DEF Registers
  <2>5. CASE Undoes(Long, FALSE, b)
    <3>1. hist.kind = "mul" /\ hist.w = Long /\ hist.signed = FALSE /\ hist.by = b
      BY <2>5 DEF Undoes
    <3>2. OfProduct
      BY <1>0, <3>1, SeriesKind
    <3>3. hist.a \in 0 .. Long - 1 /\ n = hist.a * b
      BY <3>1, <3>2 DEF OfProduct, Number, Wide
    <3>4. (hist.a * b) \div b = hist.a /\ (hist.a * b) % b = 0
      BY <1>0, <2>1, <3>3, DivFactor, Zenon
    <3>5. q = hist.a /\ r = 0
      <4>1. q = hist.a % Long /\ r = 0
        BY <3>3, <3>4 DEF q, r
      <4>2. hist.a % Long = hist.a
        BY <1>0, <3>3
      <4> QED BY <4>1, <4>2
    <3>6. hist' = [kind |-> "undone", w |-> hist.w, a |-> hist.a, high |-> hist.high]
      BY <1>2, <2>5 DEF Undone
    <3>7. hist'.kind = "undone" /\ hist'.w = Long /\ hist'.a = hist.a
      BY <3>1, <3>6
    <3>8. 0 * Long + hist.a = hist.a /\ Long # Byte
      BY <1>0, <3>3, WideWidths
    <3>9. OfQuotient'
      BY <1>2, <3>5, <3>7, <3>8 DEF OfQuotient, Wide
    <3> QED BY <2>4, <3>9 DEF Series
  <2>6. CASE ~Undoes(Long, FALSE, b)
    <3>1. Divided(b, q)
      BY <1>2, <2>6
    <3>2. CASE edx >= b
      BY <2>4, <3>1, <3>2 DEF Divided, Series
    <3>3. CASE ~(edx >= b) /\ hist.kind = "div" /\ hist.by = b /\ hist.words < MaxWords
      <4>1. OfDivision
        BY <1>0, <3>3, SeriesKind
      <4> DEFINE num == hist.num
                 quo == hist.quo
      <4>2. num \in Nat /\ quo \in Nat /\ num = quo * b + edx /\ hist.words \in Nat
        BY <3>3, <4>1 DEF OfDivision
      <4>3. hist' = [hist EXCEPT !.num = @ * Long + eax, !.quo = @ * Long + q, !.words = @ + 1]
        BY <3>1, <3>3 DEF Divided
      <4>4. num * Long + eax \in Nat /\ quo * Long + q \in Nat /\ hist.words + 1 \in Nat
        BY <1>0, <2>2, <4>2
      <4>5. hist' \in [kind : {"div"}, by : Nat, num : Nat, quo : Nat, words : Nat]
        BY <4>1, <4>3, <4>4 DEF OfDivision
      <4>6. hist'.num = num * Long + eax /\ hist'.quo = quo * Long + q /\ hist'.by = b
        BY <3>3, <4>1, <4>3 DEF OfDivision
      <4>7. num * Long + eax = (quo * Long + q) * b + r
        <5> HIDE DEF num, quo
        <5>1. edx < b /\ q \in Int /\ r \in Int /\ eax \in Int /\ edx \in Int
          BY <1>0, <2>1, <2>2, <3>3
        <5>2. edx * Long + eax = q * b + r
          BY <2>2, <5>1
        <5>3. (quo * b + edx) * Long + eax = (quo * Long) * b + (edx * Long + eax)
          BY <1>0, <2>1, <4>2, <5>1
        <5>4. (quo * Long) * b + (q * b + r) = (quo * Long + q) * b + r
          BY <1>0, <2>1, <4>2, <5>1
        <5> QED BY <4>2, <5>2, <5>3, <5>4
      <4>8. OfDivision'
        BY <1>2, <2>2, <4>5, <4>6, <4>7 DEF OfDivision
      <4> QED BY <2>4, <4>8 DEF Series
    <3>4. CASE ~(edx >= b) /\ ~(hist.kind = "div" /\ hist.by = b /\ hist.words < MaxWords)
      <4>1. hist' = [kind |-> "div", by |-> b, num |-> n, quo |-> q, words |-> 2]
        BY <3>1, <3>4 DEF Divided
      <4>2. edx < b /\ q \in Nat
        BY <1>0, <2>1, <2>2, <3>4
      <4> HIDE DEF n
      <4>3. hist' \in [kind : {"div"}, by : Nat, num : Nat, quo : Nat, words : Nat]
        BY <2>1, <2>3, <4>1, <4>2
      <4>4. hist'.num = n /\ hist'.quo = q /\ hist'.by = b
        BY <4>1
      <4>5. OfDivision'
        BY <1>2, <2>2, <4>2, <4>3, <4>4 DEF OfDivision
      <4> QED BY <2>4, <4>5 DEF Series
    <3> QED BY <3>2, <3>3, <3>4
  <2> QED BY <2>5, <2>6
<1> QED BY <1>1, <1>2 DEF div_long

\* The wide dividend of CDQ has the value of EAX.
LEMMA CdqValue ==
    ASSUME NEW a \in 0 .. Long - 1, NEW d, d = IF Sign(a) THEN Long - 1 ELSE 0
    PROVE  ToSigned(d * Long + a, Long * Long) = ToSigned(a, Long)
<1> DEFINE h == Long \div 2
           k == h * h
           m == Long * Long
           n == d * Long + a
<1>1. h \in Nat /\ h > 0 /\ Long = 2 * h /\ m = 2 * (2 * k) /\ a \in Nat /\ a < Long
  BY WideHalves
<1>2. k \in Nat /\ k >= h
  <2> HIDE DEF h
  <2> QED BY <1>1
<1> HIDE DEF k, m
<1>3. m \div 2 = 2 * k
  BY <1>1, <1>2
<1>4. CASE Sign(a)
  <2>1. a >= h /\ d = Long - 1
    BY <1>4 DEF Sign
  <2>2. n = (m - Long) + a
    <3>1. (Long - 1) * Long + a = (Long * Long - Long) + a
      BY <1>1
    <3> QED BY <2>1, <3>1 DEF m
  <2> HIDE DEF n, h
  <2>3. n >= 2 * k /\ n - m = a - Long
    BY <1>1, <1>2, <2>1, <2>2
  <2>4. ToSigned(n, m) = n - m /\ ToSigned(a, Long) = a - Long
    BY <1>3, <2>1, <2>3 DEF ToSigned, h
  <2> QED BY <2>3, <2>4 DEF n, m
<1>5. CASE ~Sign(a)
  <2>1. ~(a >= h) /\ d = 0
    BY <1>5 DEF Sign
  <2>2. n = a
    BY <1>1, <2>1
  <2> HIDE DEF n, h
  <2>3. ~(n >= 2 * k)
    BY <1>1, <1>2, <2>1, <2>2
  <2>4. ToSigned(n, m) = n /\ ToSigned(a, Long) = a
    BY <1>3, <2>1, <2>3 DEF ToSigned, h
  <2> QED BY <2>2, <2>4 DEF n, m
<1> QED BY <1>4, <1>5

\* CDQ.
LEMMA CdqStep ==
    ASSUME WideInv, op_cdq
    PROVE  Registers' /\ Series'
<1>0. eax \in 0 .. Long - 1 /\ eflags \in Eflags /\ Long \in Nat /\ Long > 0
  BY WideWidths DEF WideInv, Registers
<1>1. /\ edx' = (IF Sign(eax) THEN Long - 1 ELSE 0) /\ hist' = [kind |-> "cdq"]
      /\ eax' = eax /\ eflags' = eflags
  BY DEF op_cdq
<1>2. edx' \in 0 .. Long - 1
  BY <1>0, <1>1
<1>3. Registers'
  BY <1>0, <1>1, <1>2 DEF Registers
<1>4. OfCdq'
  BY <1>1 DEF OfCdq
<1> QED BY <1>3, <1>4 DEF Series

\* IDIV r/m32.
LEMMA IdivLongStep ==
    ASSUME WideInv, NEW b \in LongArgs, idiv_long(b)
    PROVE  Registers' /\ Series'
<1> DEFINE m == Long * Long
           n == ToSigned(edx * Long + eax, m)
           d == ToSigned(b, Long)
           q == TruncDiv(n, d)
           r == TruncMod(n, d)
           h == Long \div 2
<1>0. /\ eax \in 0 .. Long - 1 /\ edx \in 0 .. Long - 1 /\ eflags \in Eflags /\ Series
      /\ b \in 0 .. Long - 1 /\ Long \in Nat /\ Long > 0
  BY WidthAssumption, WideWidths DEF WideInv, Registers
<1>1. CASE UNCHANGED <<eax, edx, eflags, hist>>
  BY <1>1, SeriesKept
<1>2. CASE /\ d # 0 /\ eax' = q % Long /\ edx' = r % Long /\ UNCHANGED <<eflags, status>>
           /\ IF Undoes(Long, TRUE, b) THEN Undone
              ELSE hist' = IF hist.kind = "cdq" THEN [kind |-> "idiv", num |-> n, by |-> d]
                           ELSE NoHist
  <2>1. h \in Nat /\ h > 0 /\ Long = 2 * h
    BY WideHalves
  <2>2. d \in -h .. h - 1 /\ d \in Int
    <3>1. d \in -h .. h - 1
      BY <1>0, <2>1, SignedForm, Zenon
    <3> HIDE DEF d, h
    <3> QED BY <2>1, <3>1
  <2>3. n \in Int
    <3>1. edx * Long + eax \in Nat /\ m \in Int
      BY <1>0, TwoWords
    <3> HIDE DEF m
    <3> QED BY <3>1 DEF ToSigned
  <2> HIDE DEF n, d, m
  <2>4. q \in Int /\ r \in Int
    BY <1>2, <2>2, <2>3, TruncForm, Zenon
  <2>5. Registers'
    <3> HIDE DEF q, r
    <3> QED BY <1>0, <1>2, <2>4 DEF Registers
  <2>6. CASE Undoes(Long, TRUE, b)
    <3>1. hist.kind = "mul" /\ hist.w = Long /\ hist.signed = TRUE /\ hist.by = b
      BY <2>6 DEF Undoes
    <3>2. OfProduct
      BY <1>0, <3>1, SeriesKind
    <3> DEFINE s == ToSigned(hist.a, Long)
    <3>3. hist.a \in 0 .. Long - 1 /\ n = s * d
      BY <3>1, <3>2 DEF OfProduct, Number, Wide, n, d, m
    <3>4. s \in -h .. h - 1 /\ s % Long = hist.a
      BY <2>1, <3>3, SignedForm, Zenon
    <3>5. s \in Int
      <4> HIDE DEF s, h
      <4> QED BY <2>1, <3>4
    <3>6. q = s /\ r = 0
      <4> HIDE DEF s
      <4>1. TruncDiv(s * d, d) = s /\ TruncMod(s * d, d) = 0
        BY <1>2, <2>2, <3>5, TruncExact, Zenon
      <4> QED BY <3>3, <4>1
    <3>7. eax' = hist.a /\ edx' = 0
      <4>1. 0 % Long = 0
        BY <1>0
      <4> QED BY <1>2, <3>4, <3>6, <4>1
    <3>8. hist' = [kind |-> "undone", w |-> hist.w, a |-> hist.a, high |-> hist.high]
      BY <1>2, <2>6 DEF Undone
    <3>9. hist'.kind = "undone" /\ hist'.w = Long /\ hist'.a = hist.a
      BY <3>1, <3>8
    <3>10. 0 * Long + hist.a = hist.a /\ Long # Byte
      BY <1>0, <3>3, WideWidths
    <3>11. OfQuotient'
      BY <3>7, <3>9, <3>10 DEF OfQuotient, Wide
    <3> QED BY <2>5, <3>11 DEF Series
  <2>7. CASE ~Undoes(Long, TRUE, b) /\ hist.kind = "cdq"
    <3>1. hist' = [kind |-> "idiv", num |-> n, by |-> d]
      BY <1>2, <2>7
    <3>2. hist'.kind = "idiv" /\ hist'.num = n /\ hist'.by = d
      BY <3>1
    <3>3. n = ToSigned(eax, Long)
      <4>1. edx = IF Sign(eax) THEN Long - 1 ELSE 0
        BY <1>0, <2>7, SeriesKind DEF OfCdq
      <4> QED BY <1>0, <4>1, CdqValue DEF n, m
    <3>4. n \in -h .. h - 1
      <4>1. ToSigned(eax, Long) \in -h .. h - 1
        BY <1>0, <2>1, SignedForm, Zenon
      <4> QED BY <3>3, <4>1
    <3>5. /\ n = q * d + r /\ Size(r) < Size(d) /\ (r # 0 => (r < 0 <=> n < 0))
      BY <1>2, <2>2, <2>3, TruncForm, Zenon
    <3>6. r \in -h .. h - 1 /\ ((n = -h /\ d = -1) \/ q \in -h .. h - 1)
      <4> HIDE DEF h
      <4> QED BY <1>2, <2>1, <2>2, <3>4, TruncFits, Zenon
    <3> HIDE DEF q, r
    <3>7. ToSigned(r % Long, Long) = r
      BY <2>1, <3>6, SignedForm, Zenon
    <3>8. (n = -h /\ d = -1) \/ ToSigned(q % Long, Long) = q
      BY <2>1, <3>6, SignedForm, Zenon
    <3>9. /\ eax' = q % Long /\ edx' = r % Long
      BY <1>2
    <3>10. OfIdiv'
      <4>1. CASE n = -h /\ d = -1
        BY <3>2, <4>1 DEF OfIdiv, h
      <4>2. CASE ToSigned(q % Long, Long) = q
        <5>1. ToSigned(eax', Long) = q /\ ToSigned(edx', Long) = r
          BY <3>7, <3>9, <4>2
        <5> QED BY <3>2, <3>5, <5>1 DEF OfIdiv
      <4> QED BY <3>8, <4>1, <4>2
    <3> QED BY <2>5, <3>10 DEF Series
  <2>8. CASE ~Undoes(Long, TRUE, b) /\ hist.kind # "cdq"
    BY <1>2, <2>5, <2>8 DEF Series
  <2> QED BY <2>6, <2>7, <2>8
<1> QED BY <1>1, <1>2 DEF idiv_long, divide_by_zero

-------------------------------------------------------------------------------
(* Products.                                                                 *)

\* A product of two words fits two, read with or without sign.
LEMMA ProductFits ==
    ASSUME NEW w \in Nat, NEW h \in Nat, h > 0, w = 2 * h,
           NEW a \in 0 .. w - 1, NEW b \in 0 .. w - 1
    PROVE  /\ a * b \in Nat /\ a * b < w * w
           /\ LET t == ToSigned(a, w) * ToSigned(b, w) IN
              /\ t \in Int /\ t % (w * w) \in Nat /\ t % (w * w) < w * w
              /\ ToSigned(t % (w * w), w * w) = t
<1>1. a \in Nat /\ b \in Nat /\ a < w /\ b < w /\ w > 0
  OBVIOUS
<1>2. a * b \in Nat /\ a * b < w * w
  <2> DEFINE c == w - b
             ab == a * b
             ac == a * c
             aw == a * w
             e == w - a
             ew == e * w
             ww == w * w
  <2>1. c \in Nat /\ e \in Nat /\ e >= 1
    BY <1>1
  <2>2. ab \in Nat /\ ac \in Nat /\ aw \in Nat /\ ww \in Nat /\ aw = ab + ac /\ ww = aw + ew
    BY <1>1
  <2>3. ew >= w
    <3> HIDE DEF e
    <3> QED BY <1>1, <2>1
  <2>4. ew \in Int
    BY <1>1
  <2> HIDE DEF ab, ac, aw, ew, ww
  <2>5. ab \in Nat /\ ab < ww
    BY <1>1, <2>2, <2>3, <2>4
  <2> QED BY <2>5 DEF ab, ww
<1> DEFINE s == ToSigned(a, w)
           u == ToSigned(b, w)
           t == s * u
           k == h * h
           m == w * w
           g == 2 * k
<1>3. s \in -h .. h - 1 /\ u \in -h .. h - 1
  BY SignedForm, Zenon
<1> HIDE DEF s, u
<1>4. t \in -(2 * (h * h)) .. 2 * (h * h) - 1
  BY <1>3, SignedProduct, Zenon
<1>5. k \in Nat /\ k > 0 /\ m = 2 * g
  OBVIOUS
<1>6. s \in Int /\ u \in Int
  BY <1>3
<1>7. t \in Int
  BY <1>6
<1>8. t \in -g .. g - 1
  BY <1>4
<1> HIDE DEF t, k, m
<1>9. m \in Nat /\ m > 0 /\ g \in Nat /\ g > 0
  BY <1>5
<1> HIDE DEF g
<1>10. ToSigned(t % m, m) = t
  BY <1>5, <1>8, <1>9, SignedForm, Zenon
<1>11. t % m \in Nat /\ t % m < m
  BY <1>7, <1>9
<1> QED BY <1>2, <1>7, <1>10, <1>11 DEF t, m, s, u

\* A product in EDX:EAX.
LEMMA LongProduct ==
    ASSUME WideInv, NEW b \in LongArgs, NEW sg \in BOOLEAN, NEW p \in Nat, p < Long * Long,
           Number(p, Long * Long, sg) = Number(eax, Long, sg) * Number(b, Long, sg),
           Product(p), Multiplied(Long, sg, b)
    PROVE  Registers' /\ Series'
<1>0. /\ eax \in 0 .. Long - 1 /\ edx \in 0 .. Long - 1 /\ eflags \in Eflags
      /\ b \in 0 .. Long - 1 /\ Long \in Nat /\ Long > 0 /\ Byte # Long
  BY WidthAssumption, WideWidths DEF WideInv, Registers
<1>1. eax' = p % Long /\ edx' = (p \div Long) % Long /\ eflags' = set_cf(eflags, edx' # 0)
  BY DEF Product
<1>2. eax' \in 0 .. Long - 1 /\ edx' \in 0 .. Long - 1 /\ edx' * Long + eax' = p
  BY <1>1, CutInTwo
<1>3. eflags' \in Eflags
  BY <1>0, <1>1, CarryFields, Zenon
<1>4. eax % Long = eax
  BY <1>0
<1>5. hist' = [kind |-> "mul", w |-> Long, signed |-> sg, by |-> b, a |-> eax, high |-> eax \div Half]
  BY <1>4 DEF Multiplied
<1>6. hist'.kind = "mul" /\ hist'.w = Long /\ hist'.signed = sg /\ hist'.by = b /\ hist'.a = eax
  BY <1>5
<1>7. OfProduct'
  BY <1>0, <1>2, <1>6, Zenon DEF OfProduct, Wide, Number
<1> QED BY <1>2, <1>3, <1>7 DEF Series, Registers

\* A product in AX.
LEMMA ByteProduct ==
    ASSUME WideInv, NEW b \in ByteArgs, NEW sg \in BOOLEAN, NEW p \in 0 .. Half - 1,
           Number(p, Byte * Byte, sg) = Number(al, Byte, sg) * Number(b, Byte, sg),
           eax' = WithAx(p), edx' = edx, eflags' \in Eflags, Multiplied(Byte, sg, b)
    PROVE  Registers' /\ Series'
<1>0. /\ eax \in 0 .. Long - 1 /\ edx \in 0 .. Long - 1 /\ eflags \in Eflags
      /\ b \in 0 .. Byte - 1 /\ Byte \in Nat /\ Byte > 0 /\ Byte # Long /\ eax % Byte \in 0 .. Byte - 1
  <2>1. /\ eax \in 0 .. Long - 1 /\ edx \in 0 .. Long - 1 /\ eflags \in Eflags
        /\ b \in 0 .. Byte - 1 /\ Byte \in Nat /\ Byte > 0 /\ Byte # Long /\ Long \in Nat
    BY WidthAssumption, WideWidths DEF WideInv, Registers
  <2> QED BY <2>1
<1>1. eax' = (eax \div Half) * Half + p
  BY DEF WithAx
<1>2. eax' \in 0 .. Long - 1 /\ eax' % Half = p /\ eax' \div Half = eax \div Half
  BY <1>0, <1>1, WithPart
<1>3. hist' = [kind |-> "mul", w |-> Byte, signed |-> sg, by |-> b, a |-> eax % Byte, high |-> eax \div Half]
  BY DEF Multiplied
<1>4. /\ hist'.kind = "mul" /\ hist'.w = Byte /\ hist'.signed = sg /\ hist'.by = b
      /\ hist'.a = eax % Byte /\ hist'.high = eax \div Half
  BY <1>3
<1>5. OfProduct'
  BY <1>0, <1>2, <1>4, Zenon DEF OfProduct, Wide, Number, al
<1> QED BY <1>0, <1>2, <1>5 DEF Series, Registers

\* MUL and IMUL.
LEMMA MulStep ==
    ASSUME WideInv
    PROVE  /\ \A b \in LongArgs : mul_long(b) \/ imul_long(b) => Registers' /\ Series'
           /\ \A b \in ByteArgs : mul_byte(b) \/ imul_byte(b) => Registers' /\ Series'
<1>0. /\ eax \in 0 .. Long - 1 /\ eflags \in Eflags /\ Byte \in Nat /\ Byte > 0 /\ Long \in Nat
      /\ LongArgs \subseteq 0 .. Long - 1 /\ ByteArgs \subseteq 0 .. Byte - 1
  BY WidthAssumption, WideWidths DEF WideInv, Registers
<1>1. al \in 0 .. Byte - 1
  BY <1>0 DEF al
<1>2. /\ Byte \div 2 \in Nat /\ Byte \div 2 > 0 /\ Byte = 2 * (Byte \div 2)
      /\ Long \div 2 \in Nat /\ Long \div 2 > 0 /\ Long = 2 * (Long \div 2) /\ Half = Byte * Byte
  BY WideHalves
<1> HIDE DEF al
<1>3. ASSUME NEW b \in LongArgs, mul_long(b) PROVE Registers' /\ Series'
  <2>1. eax * b \in Nat /\ eax * b < Long * Long
    BY <1>0, <1>2, ProductFits, Zenon
  <2>2. Number(eax * b, Long * Long, FALSE) = Number(eax, Long, FALSE) * Number(b, Long, FALSE)
    BY DEF Number
  <2>3. Product(eax * b) /\ Multiplied(Long, FALSE, b)
    BY <1>3 DEF mul_long
  <2>4. FALSE \in BOOLEAN
    OBVIOUS
  <2> QED BY <2>1, <2>2, <2>3, <2>4, LongProduct, Zenon
<1>4. ASSUME NEW b \in LongArgs, imul_long(b) PROVE Registers' /\ Series'
  <2> DEFINE t == ToSigned(eax, Long) * ToSigned(b, Long)
             p == t % (Long * Long)
  <2>1. p \in Nat /\ p < Long * Long /\ ToSigned(p, Long * Long) = t
    BY <1>0, <1>2, ProductFits, Zenon
  <2>2. Number(p, Long * Long, TRUE) = Number(eax, Long, TRUE) * Number(b, Long, TRUE)
    BY <2>1 DEF Number
  <2>3. Product(p) /\ Multiplied(Long, TRUE, b)
    BY <1>4 DEF imul_long
  <2>4. TRUE \in BOOLEAN
    OBVIOUS
  <2> HIDE DEF p
  <2> QED BY <2>1, <2>2, <2>3, <2>4, LongProduct, Zenon
<1>5. ASSUME NEW b \in ByteArgs, mul_byte(b) PROVE Registers' /\ Series'
  <2> DEFINE p == al * b
  <2>1. p \in Nat /\ p < Half
    BY <1>0, <1>1, <1>2, ProductFits, Zenon
  <2>2. Number(p, Byte * Byte, FALSE) = Number(al, Byte, FALSE) * Number(b, Byte, FALSE)
    BY DEF Number
  <2>3. /\ eax' = WithAx(p) /\ edx' = edx /\ eflags' = set_cf(eflags, p \div Byte # 0)
        /\ Multiplied(Byte, FALSE, b)
    BY <1>5 DEF mul_byte
  <2>4. eflags' \in Eflags /\ FALSE \in BOOLEAN
    BY <1>0, <2>3, CarryFields, Zenon
  <2> HIDE DEF p
  <2>5. p \in 0 .. Half - 1
    <3>1. Half \in Nat
      BY WideWidths
    <3> QED BY <2>1, <3>1
  <2> QED BY <2>2, <2>3, <2>4, <2>5, ByteProduct, Zenon
<1>6. ASSUME NEW b \in ByteArgs, imul_byte(b) PROVE Registers' /\ Series'
  <2> DEFINE t == ToSigned(al, Byte) * ToSigned(b, Byte)
             p == t % Half
  <2>1. p \in Nat /\ p < Half /\ ToSigned(p, Byte * Byte) = t
    BY <1>0, <1>1, <1>2, ProductFits, Zenon
  <2>2. Number(p, Byte * Byte, TRUE) = Number(al, Byte, TRUE) * Number(b, Byte, TRUE)
    BY <2>1 DEF Number
  <2>3. /\ eax' = WithAx(p) /\ edx' = edx
        /\ eflags' = set_cf(eflags, t \div Byte # -BitAt(t, ByteBits - 1))
        /\ Multiplied(Byte, TRUE, b)
    BY <1>6 DEF imul_byte
  <2>4. eflags' \in Eflags /\ TRUE \in BOOLEAN
    BY <1>0, <2>3, CarryFields, Zenon
  <2> HIDE DEF p
  <2>5. p \in 0 .. Half - 1
    <3>1. Half \in Nat
      BY WideWidths
    <3> QED BY <2>1, <3>1
  <2> QED BY <2>2, <2>3, <2>4, <2>5, ByteProduct, Zenon
<1> QED BY <1>3, <1>4, <1>5, <1>6

-------------------------------------------------------------------------------
(* The byte divisions and the moves.                                         *)

\* DIV and IDIV give the factor of a product in AX back.
LEMMA ByteQuotient ==
    ASSUME WideInv, NEW b \in ByteArgs, NEW sg \in BOOLEAN, NEW v \in 0 .. Half - 1,
           eax' = WithAx(v), edx' = edx, eflags' = eflags,
           IF Undoes(Byte, sg, b) THEN Undone ELSE hist' = NoHist,
           Undoes(Byte, sg, b) => v = hist.a
    PROVE  Registers' /\ Series'
<1>0. /\ eax \in 0 .. Long - 1 /\ edx \in 0 .. Long - 1 /\ eflags \in Eflags /\ Series
      /\ Byte # Long
  BY WideWidths DEF WideInv, Registers
<1>1. eax' = (eax \div Half) * Half + v
  BY DEF WithAx
<1>2. eax' \in 0 .. Long - 1 /\ eax' % Half = v /\ eax' \div Half = eax \div Half
  BY <1>0, <1>1, WithPart
<1>3. Registers'
  BY <1>0, <1>2 DEF Registers
<1>4. CASE Undoes(Byte, sg, b)
  <2>1. hist.kind = "mul" /\ hist.w = Byte
    BY <1>4 DEF Undoes
  <2>2. eax \div Half = hist.high
    BY <1>0, <2>1, SeriesKind DEF OfProduct
  <2>3. hist' = [kind |-> "undone", w |-> hist.w, a |-> hist.a, high |-> hist.high]
    BY <1>4 DEF Undone
  <2>4. hist'.kind = "undone" /\ hist'.w = Byte /\ hist'.a = hist.a /\ hist'.high = hist.high
    BY <2>1, <2>3
  <2>5. OfQuotient'
    BY <1>0, <1>2, <1>4, <2>2, <2>4, Zenon DEF OfQuotient, Wide
  <2> QED BY <1>3, <2>5 DEF Series
<1>5. CASE ~Undoes(Byte, sg, b)
  BY <1>3, <1>5 DEF Series
<1> QED BY <1>4, <1>5

\* The product a byte division undoes.
LEMMA ByteFactors ==
    ASSUME WideInv, NEW b \in ByteArgs, NEW sg \in BOOLEAN, Undoes(Byte, sg, b)
    PROVE  /\ hist.a \in 0 .. Byte - 1
           /\ Number(eax % Half, Half, sg) = Number(hist.a, Byte, sg) * Number(b, Byte, sg)
<1>1. hist.kind = "mul" /\ hist.w = Byte /\ hist.signed = sg /\ hist.by = b
  BY DEF Undoes
<1>2. OfProduct
  BY <1>1, SeriesKind DEF WideInv
<1>3. Byte # Long /\ Half = Byte * Byte
  BY WideWidths, WideHalves
<1> QED BY <1>1, <1>2, <1>3, Zenon DEF OfProduct, Wide

\* DIV r/m8.
LEMMA DivByteStep ==
    ASSUME WideInv, NEW b \in ByteArgs, div_byte(b)
    PROVE  Registers' /\ Series'
<1> DEFINE n == eax % Half
           v == Or((n % b) * Byte, n \div b)
<1>0. /\ eax \in 0 .. Long - 1 /\ Byte \in Nat /\ Byte > 0 /\ Half \in Nat /\ Half > 0 /\ Long \in Nat
      /\ b \in 0 .. Byte - 1
  BY WidthAssumption, WideWidths DEF WideInv, Registers
<1>1. CASE UNCHANGED <<eax, edx, eflags, hist>>
  BY <1>1, SeriesKept
<1>2. CASE /\ b # 0 /\ eax' = WithAx(v) /\ UNCHANGED <<edx, eflags, status>>
           /\ IF Undoes(Byte, FALSE, b) THEN Undone ELSE hist' = NoHist
  <2>1. n \in 0 .. Half - 1 /\ b \in Nat /\ b > 0 /\ b \in 1 .. Byte - 1
    BY <1>0, <1>2
  <2> HIDE DEF n
  <2>2. n \div b \in Int /\ (n % b) * Byte \in Int
    BY <1>0, <2>1
  <2>3. v \in 0 .. Half - 1
    BY <2>2, OrForm, Zenon
  <2>4. Undoes(Byte, FALSE, b) => v = hist.a
    <3> SUFFICES ASSUME Undoes(Byte, FALSE, b) PROVE v = hist.a
      OBVIOUS
    <3>0. FALSE \in BOOLEAN
      OBVIOUS
    <3>1. hist.a \in 0 .. Byte - 1 /\ n = hist.a * b
      <4>1. /\ hist.a \in 0 .. Byte - 1
            /\ Number(eax % Half, Half, FALSE) = Number(hist.a, Byte, FALSE) * Number(b, Byte, FALSE)
        BY <3>0, ByteFactors, Zenon
      <4> QED BY <4>1 DEF Number, n
    <3>2. (hist.a * b) \div b = hist.a /\ (hist.a * b) % b = 0
      BY <1>0, <2>1, <3>1, DivFactor, Zenon
    <3>3. v = Or(0 * Byte, hist.a) /\ 0 * Byte = 0 /\ hist.a \in Int /\ hist.a \in 0 .. Half - 1
      <4>1. hist.a \in Int /\ 0 * Byte = 0
        BY <1>0, <3>1
      <4>2. Byte < Half
        BY WidthAssumption
      <4>3. hist.a \in 0 .. Half - 1
        BY <1>0, <3>1, <4>1, <4>2
      <4> QED BY <3>1, <3>2, <4>1, <4>3
    <3>4. 0 \in Int
      OBVIOUS
    <3>5. Or(0, hist.a) = hist.a
      BY <3>3, <3>4, OrForm, Zenon
    <3> QED BY <3>3, <3>5
  <2>5. eax' = WithAx(v) /\ edx' = edx /\ eflags' = eflags /\ FALSE \in BOOLEAN
        /\ IF Undoes(Byte, FALSE, b) THEN Undone ELSE hist' = NoHist
    BY <1>2
  <2> HIDE DEF v
  <2> QED BY <2>3, <2>4, <2>5, ByteQuotient, Zenon
<1> QED BY <1>1, <1>2 DEF div_byte, divide_by_zero

\* IDIV r/m8.
LEMMA IdivByteStep ==
    ASSUME WideInv, NEW b \in ByteArgs, idiv_byte(b)
    PROVE  Registers' /\ Series'
<1> DEFINE n == ToSigned(eax % Half, Half)
           d == ToSigned(b, Byte)
           q == TruncDiv(n, d)
           r == TruncMod(n, d)
           v == (r % Byte) * Byte + (q % Byte)
           h == Byte \div 2
<1>0. /\ eax \in 0 .. Long - 1 /\ Byte \in Nat /\ Byte > 0 /\ Half \in Nat /\ Half > 0 /\ Long \in Nat
      /\ b \in 0 .. Byte - 1
  BY WidthAssumption, WideWidths DEF WideInv, Registers
<1>1. CASE UNCHANGED <<eax, edx, eflags, hist>>
  BY <1>1, SeriesKept
<1>2. CASE /\ d # 0 /\ eax' = WithAx(v) /\ UNCHANGED <<edx, eflags, status>>
           /\ IF Undoes(Byte, TRUE, b) THEN Undone ELSE hist' = NoHist
  <2>1. h \in Nat /\ h > 0 /\ Byte = 2 * h /\ Half = Byte * Byte
    BY WideHalves
  <2>2. d \in Int /\ n \in Int
    <3>1. eax % Half \in Int
      BY <1>0
    <3> QED BY <1>0, <3>1 DEF ToSigned
  <2> HIDE DEF n, d
  <2>3. q \in Int /\ r \in Int
    BY <1>2, <2>2, TruncForm, Zenon
  <2>4. v \in 0 .. Half - 1
    <3> DEFINE x == r % Byte
               y == q % Byte
    <3>1. x \in Nat /\ x < Byte /\ y \in 0 .. Byte - 1
      <4> HIDE DEF q, r
      <4> QED BY <1>0, <2>3
    <3> HIDE DEF x, y
    <3>2. x * Byte + y \in Nat /\ x * Byte + y < Byte * Byte
      BY <1>0, <3>1, Joined, Zenon
    <3> DEFINE z == x * Byte + y
    <3>3. z \in Nat /\ z < Half /\ v = z
      BY <2>1, <3>2 DEF x, y
    <3> HIDE DEF z, v
    <3> QED BY <1>0, <3>3
  <2>5. Undoes(Byte, TRUE, b) => v = hist.a
    <3> SUFFICES ASSUME Undoes(Byte, TRUE, b) PROVE v = hist.a
      OBVIOUS
    <3> DEFINE s == ToSigned(hist.a, Byte)
    <3>0. TRUE \in BOOLEAN
      OBVIOUS
    <3>1. hist.a \in 0 .. Byte - 1 /\ n = s * d
      <4>1. /\ hist.a \in 0 .. Byte - 1
            /\ Number(eax % Half, Half, TRUE) = Number(hist.a, Byte, TRUE) * Number(b, Byte, TRUE)
        BY <3>0, ByteFactors, Zenon
      <4> QED BY <4>1 DEF Number, n, d
    <3>2. s \in -h .. h - 1 /\ s % Byte = hist.a
      BY <2>1, <3>1, SignedForm, Zenon
    <3>3. s \in Int
      <4> HIDE DEF s, h
      <4> QED BY <2>1, <3>2
    <3>4. q = s /\ r = 0
      <4> HIDE DEF s
      <4>1. TruncDiv(s * d, d) = s /\ TruncMod(s * d, d) = 0
        BY <1>2, <2>2, <3>3, TruncExact, Zenon
      <4> QED BY <3>1, <4>1
    <3>5. 0 % Byte = 0 /\ 0 * Byte + hist.a = hist.a
      BY <1>0, <3>1
    <3> QED BY <3>2, <3>4, <3>5
  <2>6. eax' = WithAx(v) /\ edx' = edx /\ eflags' = eflags /\ TRUE \in BOOLEAN
        /\ IF Undoes(Byte, TRUE, b) THEN Undone ELSE hist' = NoHist
    BY <1>2
  <2> HIDE DEF v
  <2> QED BY <2>4, <2>5, <2>6, ByteQuotient, Zenon
<1> QED BY <1>1, <1>2 DEF idiv_byte, divide_by_zero

\* MOV.
LEMMA MovStep ==
    ASSUME WideInv, NEW v \in LongArgs, mov_eax(v) \/ mov_edx(v)
    PROVE  Registers' /\ Series'
<1>0. /\ eax \in 0 .. Long - 1 /\ edx \in 0 .. Long - 1 /\ eflags \in Eflags /\ Series
      /\ v \in 0 .. Long - 1
  BY WidthAssumption DEF WideInv, Registers
<1>1. CASE mov_edx(v)
  BY <1>0, <1>1 DEF mov_edx, Registers, Series
<1>2. CASE mov_eax(v)
  <2>1. eax' = v /\ edx' = edx /\ eflags' = eflags /\ hist' = IF hist.kind = "div" THEN hist ELSE NoHist
    BY <1>2 DEF mov_eax
  <2>2. Registers'
    BY <1>0, <2>1 DEF Registers
  <2>3. CASE hist.kind = "div"
    <3>1. OfDivision
      BY <1>0, <2>3, SeriesKind
    <3>2. hist' = hist
      BY <2>1, <2>3
    <3>3. OfDivision'
      BY <2>1, <3>1, <3>2 DEF OfDivision
    <3> QED BY <2>2, <3>3 DEF Series
  <2>4. CASE hist.kind # "div"
    BY <2>1, <2>2, <2>4 DEF Series
  <2> QED BY <2>3, <2>4
<1> QED BY <1>1, <1>2

-------------------------------------------------------------------------------
(* The pair of SHLD and SHL.                                                 *)

\* A number shifted left by n: what leaves the word.
LEMMA ShiftedOut ==
    ASSUME NEW b \in Nat, NEW n \in 0 .. b, NEW v \in Nat, v < Pow2(b)
    PROVE  /\ (v * Pow2(n)) \div Pow2(b) = v \div Pow2(b - n)
           /\ v \div Pow2(b - n) \in Nat /\ v \div Pow2(b - n) < Pow2(n)
<1> DEFINE a == Pow2(n)
           c == Pow2(b - n)
           k == v \div c
           m == v % c
           ma == m * a
           ca == c * a
<1>1. a \in Nat /\ a > 0 /\ c \in Nat /\ c > 0 /\ Pow2(b) = ca
  BY PowSplit
<1>0. ca \in Nat /\ ca > 0 /\ v < a * c
  <2> HIDE DEF a, c
  <2>1. c * a \in Nat /\ c * a > 0 /\ a * c = c * a
    BY <1>1
  <2> QED BY <1>1, <2>1
<1> HIDE DEF a, c
<1>2. k \in Int /\ m \in Int /\ 0 <= m /\ m < c /\ v = k * c + m
  BY <1>1, Parts
<1>3. k \in Nat /\ k < a
  BY <1>0, <1>1, QuotientBound
<1> HIDE DEF k, m
<1>4. v * a = k * ca + ma
  BY <1>1, <1>2
<1>5. ma \in Int /\ 0 <= ma /\ ma < ca
  <2> DEFINE e == c - m
             ea == e * a
  <2>1. e \in Nat /\ e >= 1
    BY <1>1, <1>2
  <2>2. ca = ma + ea /\ ma \in Nat
    BY <1>1, <1>2
  <2>3. ea \in Nat /\ ea >= a
    <3> HIDE DEF e
    <3> QED BY <1>1, <2>1
  <2> HIDE DEF ma, ca, ea
  <2> QED BY <1>0, <1>1, <2>2, <2>3
<1> HIDE DEF ma, ca
<1>6. (k * ca + ma) \div ca = k
  BY <1>0, <1>2, <1>5, Quotient, Zenon
<1>7. (v * a) \div ca = k
  BY <1>4, <1>6
<1>8. (v * Pow2(n)) \div Pow2(b) = (v * a) \div ca
  BY <1>1 DEF a
<1> QED BY <1>3, <1>7, <1>8 DEF k, c, a

\* SHLD takes the bits that leave the low word.
LEMMA ShldForm ==
    ASSUME NEW n \in 0 .. LongBits, NEW d \in 0 .. Long - 1, NEW a \in 0 .. Long - 1
    PROVE  /\ ShldResult(d, a, n) \in 0 .. Long - 1
           /\ ShldResult(d, a, n) * Long + ((a * Pow2(n)) % Long)
                = ((d * Long + a) * Pow2(n)) % (Long * Long)
<1> DEFINE p == Pow2(n)
           k == (d * p) \div Long
           m == (d * p) % Long
           h == (a * p) \div Long
           l == (a * p) % Long
           r == ShldResult(d, a, n)
           ll == Long * Long
<1>0. /\ LongBits \in Nat /\ Long = Pow2(LongBits) /\ Long \in Nat /\ Long > 0 /\ n \in Nat
      /\ d \in Nat /\ d < Long /\ a \in Nat /\ a < Long
  BY WideWidths
<1>1. p \in Nat /\ p > 0
  BY <1>0, PowPositive
<1>2. m = Shl(d, n, LongBits) /\ m \in Nat /\ m + p <= Long
  <2>1. Shl(d, n, LongBits) \in Nat /\ Shl(d, n, LongBits) + Pow2(n) <= Pow2(LongBits)
    BY <1>0, ShlForm, Zenon
  <2>2. m = Shl(d, n, LongBits)
    BY <1>0 DEF Shl
  <2> HIDE DEF m
  <2> QED BY <1>0, <2>1, <2>2
<1>3. h = Shr(a, LongBits - n) /\ h \in Nat /\ h < p
  <2>1. /\ (a * Pow2(n)) \div Pow2(LongBits) = a \div Pow2(LongBits - n)
        /\ a \div Pow2(LongBits - n) \in Nat /\ a \div Pow2(LongBits - n) < Pow2(n)
    BY <1>0, ShiftedOut
  <2>2. ~(LongBits - n < 0)
    BY <1>0
  <2>3. h = a \div Pow2(LongBits - n)
    BY <1>0, <2>1
  <2>4. Shr(a, LongBits - n) = a \div Pow2(LongBits - n)
    BY <2>2 DEF Shr
  <2> HIDE DEF h
  <2> QED BY <2>1, <2>3, <2>4
<1>4. r = m + h
  BY <1>2, <1>3, Zenon DEF ShldResult
<1>5. d * p \in Int /\ a * p \in Int
  BY <1>0, <1>1
<1>6. /\ k \in Int /\ d * p = k * Long + m
      /\ l \in Int /\ 0 <= l /\ l < Long /\ a * p = h * Long + l
  BY <1>0, <1>5, Parts
<1> HIDE DEF p, k, m, h, l, r
<1>7. r \in Nat /\ r < Long /\ l \in 0 .. Long - 1
  BY <1>0, <1>1, <1>2, <1>3, <1>4, <1>6
<1>8. r * Long + l \in Nat /\ r * Long + l < ll
  BY <1>0, <1>7, Joined, Zenon
<1>9. (d * Long + a) * p = k * ll + (r * Long + l)
  <2>1. (d * Long + a) * p = (d * p) * Long + a * p
    BY <1>0, <1>1
  <2>2. (k * Long + m) * Long + (h * Long + l) = k * (Long * Long) + ((m + h) * Long + l)
    BY <1>0, <1>2, <1>3, <1>6
  <2> QED BY <1>4, <1>6, <2>1, <2>2
<1>10. (k * ll + (r * Long + l)) % ll = r * Long + l
  <2> DEFINE y == r * Long + l
  <2>1. ll \in Nat /\ ll > 0 /\ y \in Int /\ 0 <= y /\ y < ll
    <3>1. ll \in Nat /\ ll > 0
      BY <1>0
    <3>2. y \in Nat /\ y < ll
      BY <1>8
    <3> HIDE DEF y, ll
    <3> QED BY <3>1, <3>2
  <2> HIDE DEF y, ll
  <2>2. (k * ll + y) % ll = y
    BY <1>6, <2>1, Quotient, Zenon
  <2> QED BY <2>2 DEF y
<1>11. r \in 0 .. Long - 1
  BY <1>0, <1>7
<1> QED BY <1>9, <1>10, <1>11 DEF r, l, p, ll

\* Reducing first does not change a product's remainder.
LEMMA ReduceFirst ==
    ASSUME NEW m \in Nat, m > 0, NEW x \in Int, NEW p \in Int
    PROVE  ((x % m) * p) % m = (x * p) % m
<1> DEFINE q == x \div m
           r == x % m
<1>1. q \in Int /\ r \in Int /\ x = q * m + r
  BY Parts
<1> HIDE DEF q, r
<1>2. x * p = r * p + (q * p) * m /\ r * p \in Int /\ q * p \in Int
  BY <1>1
<1>3. (r * p + (q * p) * m) % m = (r * p) % m
  BY <1>2, ModMultiple, Zenon
<1> QED BY <1>2, <1>3 DEF r

\* SHLD.
LEMMA ShldStep ==
    ASSUME WideInv, NEW imm \in Counts, op_shld_rm32_r32_imm8(imm)
    PROVE  Registers' /\ Series'
<1> DEFINE n == masked(imm)
           r == ShldResult(edx, eax, n)
           p == Pow2(n)
           ll == Long * Long
           again == hist.kind = "pair" /\ hist.pending = 0 /\ hist.total + n <= MaxTotal
           f == set_cf(eflags, Shr(edx, LongBits - n) % 2 = 1)
           g == ZeroSignParity(f, r)
           num == edx * Long + eax
           from == IF again THEN hist.from ELSE num
           total == IF again THEN hist.total ELSE 0
<1>0. /\ eax \in 0 .. Long - 1 /\ edx \in 0 .. Long - 1 /\ eflags \in Eflags /\ Series
      /\ LongBits \in Nat /\ LongBits >= 1 /\ Long \in Nat /\ Long > 0 /\ imm \in Nat
  BY WideAssumption, WideWidths DEF WideInv, Registers
<1>1. CASE UNCHANGED <<eax, edx, eflags, hist>>
  BY <1>1, SeriesKept
<1>2. CASE /\ n # 0 /\ edx' = r /\ eflags' = set_of_sub(g, edx, eax, r)
           /\ hist' = [kind |-> "pair", pending |-> n, from |-> from, total |-> total]
           /\ eax' = eax
  <2>1. n \in 0 .. LongBits /\ n \in Nat
    BY <1>0 DEF masked
  <2>2. p \in Nat
    BY <2>1, PowPositive
  <2> HIDE DEF n
  <2>3. r \in 0 .. Long - 1 /\ r * Long + ((eax * p) % Long) = (num * p) % ll
    BY <1>0, <2>1, ShldForm, Zenon
  <2>4. num \in Nat /\ ll \in Nat /\ ll > 0 /\ num < ll
    <3>1. num \in Nat /\ num < ll
      BY <1>0, TwoWords
    <3>2. ll \in Nat /\ ll > 0
      BY <1>0
    <3> QED BY <3>1, <3>2
  <2>5. f \in Eflags
    BY <1>0, CarryFields, Zenon
  <2> HIDE DEF f
  <2>6. g \in Eflags
    BY <2>5, ZeroSignParityFields, Zenon
  <2> HIDE DEF g
  <2>7. eflags' \in Eflags
    BY <1>2, <2>6, OverflowFields, Zenon
  <2>8. Registers'
    BY <1>0, <1>2, <2>3, <2>7 DEF Registers
  <2>9. from \in Nat /\ total \in Nat /\ (num * p) % ll = (from * Pow2(total + n)) % ll
    <3>1. CASE again
      <4>1. from = hist.from /\ total = hist.total /\ hist.kind = "pair" /\ hist.pending = 0
        BY <3>1
      <4>2. OfPair
        BY <1>0, <4>1, SeriesKind
      <4>3. /\ from \in Nat /\ total \in Nat
            /\ edx * Long + ((eax * Pow2(0)) % Long) = (from * Pow2(total + 0)) % ll
        BY <4>1, <4>2 DEF OfPair
      <4> HIDE DEF from, total, again
      <4>4. (eax * Pow2(0)) % Long = eax /\ total + 0 = total
        <5>1. Pow2(0) = 1
          BY PowStep
        <5>2. eax * 1 = eax /\ eax % Long = eax /\ total + 0 = total
          BY <1>0, <4>3
        <5> QED BY <5>1, <5>2
      <4>5. num = (from * Pow2(total)) % ll
        BY <4>3, <4>4
      <4>6. Pow2(total + n) = Pow2(total) * p /\ Pow2(total) \in Nat
        BY <2>1, <4>3, PowSum, PowPositive
      <4> DEFINE x == from * Pow2(total)
      <4>7. x \in Int /\ x * p = from * Pow2(total + n)
        <5>1. (from * Pow2(total)) * p = from * (Pow2(total) * p)
          BY <2>2, <4>3, <4>6
        <5> QED BY <4>3, <4>6, <5>1
      <4> HIDE DEF x, p, ll, num
      <4>8. ((x % ll) * p) % ll = (x * p) % ll
        <5>1. p \in Int
          BY <2>2
        <5> QED BY <2>4, <4>7, <5>1, ReduceFirst, Zenon
      <4>9. num = x % ll
        BY <4>5 DEF x
      <4> QED BY <4>3, <4>7, <4>8, <4>9
    <3>2. CASE ~again
      <4>1. from = num /\ total = 0
        BY <3>2
      <4>2. total + n = n
        BY <2>1, <4>1
      <4> HIDE DEF from, total, num
      <4> QED BY <2>4, <4>1, <4>2
    <3> QED BY <3>1, <3>2
  <2> HIDE DEF from, total, r
  <2>10. hist' \in [kind : {"pair"}, pending : Nat, from : Nat, total : Nat]
    BY <1>2, <2>1, <2>9
  <2>11. hist'.pending = n /\ hist'.from = from /\ hist'.total = total
    BY <1>2
  <2>12. OfPair'
    <3>1. edx' * Long + ((eax' * Pow2(n)) % Long) = (from * Pow2(total + n)) % (Long * Long)
      BY <1>2, <2>3, <2>9
    <3> QED BY <2>10, <2>11, <3>1 DEF OfPair
  <2> QED BY <2>8, <2>12 DEF Series
<1> QED BY <1>1, <1>2 DEF op_shld_rm32_r32_imm8

-------------------------------------------------------------------------------
(* The shift groups.                                                         *)

\* The flags after a shift.
LEMMA FlagsOfShift ==
    ASSUME NEW reg \in ShiftRegs, NEW v, NEW n, NEW b, NEW r, eflags \in Eflags
    PROVE  LET f == ShiftFlags(reg, v, n, b, r) IN
           /\ f \in Eflags /\ f.cf = Bit(ShiftCarry(reg, v, n, b, r))
           /\ reg \notin {0, 1} => f.zf = Bit(r = 0)
           /\ set_pf(f, r) \in Eflags /\ set_pf(f, r).cf = f.cf /\ set_pf(f, r).zf = f.zf
<1> DEFINE c == set_cf(eflags, ShiftCarry(reg, v, n, b, r))
           z == ZeroSign(c, r)
           f == ShiftFlags(reg, v, n, b, r)
<1>1. c \in Eflags /\ c.cf = Bit(ShiftCarry(reg, v, n, b, r))
  BY CarryFields, Zenon
<1>2. f = IF reg \in {0, 1} THEN c ELSE z
  BY DEF ShiftFlags
<1> HIDE DEF c
<1>3. z \in Eflags /\ z.zf = Bit(r = 0) /\ z.cf = c.cf
  BY <1>1, ZeroSignFields, Zenon
<1> HIDE DEF z, f
<1>4. f \in Eflags /\ f.cf = Bit(ShiftCarry(reg, v, n, b, r)) /\ (reg \notin {0, 1} => f.zf = Bit(r = 0))
  BY <1>1, <1>2, <1>3
<1>5. set_pf(f, r) = [f EXCEPT !.pf = Bit(EvenParity(r % Byte))] /\ set_pf(f, r) \in Eflags
  BY <1>4, Helpers, Zenon
<1>6. set_pf(f, r).cf = f.cf /\ set_pf(f, r).zf = f.zf
  BY <1>4, <1>5 DEF Eflags
<1> QED BY <1>4, <1>5, <1>6 DEF f

\* The names the subcodes stand for.
LEMMA NamesOfRegs ==
    ASSUME NEW reg \in ShiftRegs
    PROVE  Name(reg) \in ShiftNames /\ (Name(reg) \in {"shl", "shr", "sar"} => reg \notin {0, 1})
BY NameValues DEF ShiftRegs, ShiftNames

\* A shift starts a series or continues one.
LEMMA SeriesOfShifts ==
    ASSUME WideInv, NEW b \in {ByteBits, LongBits}, NEW reg \in ShiftRegs, NEW n \in Nat,
           NEW v \in Nat, v < Pow2(b), v = Operand(b),
           NEW r, r = ShiftResult(reg, v, n, b), Operand(b)' = r,
           eflags'.cf = Bit(ShiftCarry(reg, v, n, b, r)),
           reg \notin {0, 1} => eflags'.zf = Bit(r = 0),
           reg \in {0, 1, 7} => n <= b,
           Shifted(b, reg, v, n)
    PROVE  OfShifts'
<1> DEFINE name == Name(reg)
           again == /\ hist.kind = "shift" /\ hist.bits = b /\ hist.name = name
                    /\ hist.total + n <= MaxTotal
           from == IF again THEN hist.from ELSE v
           total == IF again THEN hist.total + n ELSE n
<1>0. b \in Nat /\ b >= 1
  BY WideWidths
<1>1. name \in ShiftNames /\ (name \in {"shl", "shr", "sar"} => reg \notin {0, 1})
  BY NamesOfRegs
<1>2. Shows(name, v, r, n, b)
  BY <1>0, ResultBits
<1>3. n > 0 => eflags'.cf = Endless(name, v, Out(name, b) + Move(name, n), b)
  BY <1>0, CarryBits
<1>4. hist' = [kind |-> "shift", bits |-> b, name |-> name, from |-> from, total |-> total, last |-> n]
  BY DEF Shifted
<1> HIDE DEF name
<1>5. /\ total \in Nat /\ Shows(name, from, r, total, b)
      /\ n > 0 => eflags'.cf = Endless(name, from, Out(name, b) + Move(name, total), b)
  <2>1. CASE again
    <3>1. from = hist.from /\ total = hist.total + n /\ hist.kind = "shift" /\ hist.bits = b /\ hist.name = name
      BY <2>1
    <3>2. OfShifts
      BY <3>1, SeriesKind DEF WideInv
    <3> DEFINE t == hist.total
    <3>3. t \in Nat /\ Shows(name, from, v, t, b)
      BY <3>1, <3>2 DEF OfShifts
    <3>4. total = t + n
      BY <3>1
    <3> HIDE DEF t, from, total, again
    <3>5. Shows(name, from, r, t + n, b)
      BY <1>0, <1>1, <1>2, <3>3, ShowsMore
    <3>6. n > 0 => Endless(name, v, Out(name, b) + Move(name, n), b)
                     = Endless(name, from, Out(name, b) + Move(name, t + n), b)
      BY <1>0, <1>1, <3>3, OutMore
    <3>7. total \in Nat
      BY <3>3, <3>4
    <3> QED BY <1>3, <3>4, <3>5, <3>6, <3>7
  <2>2. CASE ~again
    <3>1. from = v /\ total = n
      BY <2>2
    <3> QED BY <1>2, <1>3, <3>1
  <2> QED BY <2>1, <2>2
<1> HIDE DEF from, total, again
<1>6. /\ hist'.kind = "shift" /\ hist'.bits = b /\ hist'.name = name /\ hist'.from = from
      /\ hist'.total = total /\ hist'.last = n
  BY <1>4
<1>7. name \in {"shl", "shr", "sar"} => eflags'.zf = Bit(r = 0)
  BY <1>1
<1> QED BY <1>1, <1>5, <1>6, <1>7 DEF OfShifts, Operand

\* The byte groups.
LEMMA ShiftByteStep ==
    ASSUME WideInv, NEW reg \in 0 .. 7, NEW n \in Nat, shift_byte(reg, n)
    PROVE  Registers' /\ Series'
<1> DEFINE v == al
           r == ShiftResult(reg, v, n, ByteBits)
           f == ShiftFlags(reg, v, n, ByteBits, r)
<1>0. /\ eax \in 0 .. Long - 1 /\ edx \in 0 .. Long - 1 /\ eflags \in Eflags /\ Series
      /\ ByteBits \in Nat /\ ByteBits >= 1 /\ Byte = Pow2(ByteBits) /\ Byte \in Nat /\ Byte > 0
      /\ Long \in Nat /\ ByteBits # LongBits
  BY WideWidths DEF WideInv, Registers
<1>1. CASE unhandled(reg)
  BY <1>1, SeriesKept DEF unhandled
<1>2. CASE /\ reg \notin {2, 3} /\ eax' = WithAl(r) /\ eflags' = set_pf(f, r)
           /\ IF n > ByteBits /\ reg \in {0, 1, 7} THEN hist' = NoHist
              ELSE Shifted(ByteBits, reg, v, n)
           /\ UNCHANGED <<edx, status>>
  <2>1. reg \in ShiftRegs
    BY <1>2 DEF ShiftRegs
  <2>2. v \in Nat /\ v < Byte /\ v = eax % Byte
    BY <1>0 DEF al
  <2> HIDE DEF v
  <2>3. r \in 0 .. Byte - 1
    BY <1>0, <2>1, <2>2, ResultFits
  <2>4. /\ eflags' \in Eflags /\ eflags'.cf = Bit(ShiftCarry(reg, v, n, ByteBits, r))
        /\ reg \notin {0, 1} => eflags'.zf = Bit(r = 0)
    <3> HIDE DEF r, v
    <3>1. /\ f \in Eflags /\ f.cf = Bit(ShiftCarry(reg, v, n, ByteBits, r))
          /\ reg \notin {0, 1} => f.zf = Bit(r = 0)
          /\ set_pf(f, r) \in Eflags /\ set_pf(f, r).cf = f.cf /\ set_pf(f, r).zf = f.zf
      BY <1>0, <2>1, FlagsOfShift
    <3> QED BY <1>2, <3>1 DEF f
  <2>5. eax' \in 0 .. Long - 1 /\ eax' % Byte = r
    <3> HIDE DEF r
    <3>1. eax' = (eax \div Byte) * Byte + r
      BY <1>2 DEF WithAl
    <3> QED BY <1>0, <2>3, <3>1, WithPart
  <2>6. Registers'
    BY <1>0, <1>2, <2>4, <2>5 DEF Registers
  <2>7. CASE n > ByteBits /\ reg \in {0, 1, 7}
    BY <1>2, <2>6, <2>7 DEF Series
  <2>8. CASE ~(n > ByteBits /\ reg \in {0, 1, 7})
    <3>1. Shifted(ByteBits, reg, v, n)
      BY <1>2, <2>8
    <3>2. v = Operand(ByteBits) /\ Operand(ByteBits)' = r
      <4>1. Operand(ByteBits) = al /\ Operand(ByteBits)' = al'
        BY <1>0 DEF Operand
      <4>2. al' = r
        BY <2>5 DEF al
      <4> QED BY <4>1, <4>2 DEF v
    <3>3. reg \in {0, 1, 7} => n <= ByteBits
      BY <1>0, <2>8
    <3>4. r = ShiftResult(reg, v, n, ByteBits) /\ v < Pow2(ByteBits) /\ ByteBits \in {ByteBits, LongBits}
      BY <1>0, <2>2
    <3> HIDE DEF r
    <3>5. OfShifts'
      BY <2>1, <2>2, <2>4, <3>1, <3>2, <3>3, <3>4, SeriesOfShifts, Zenon
    <3> QED BY <2>6, <3>5 DEF Series
  <2> QED BY <2>7, <2>8
<1> QED BY <1>1, <1>2 DEF shift_byte

\* The long groups.
LEMMA ShiftLongStep ==
    ASSUME WideInv, NEW reg \in 0 .. 7, NEW n \in Nat, n <= LongBits, shift_long(reg, n)
    PROVE  Registers' /\ Series'
<1> DEFINE v == eax
           r == ShiftResult(reg, v, n, LongBits)
           f == ShiftFlags(reg, v, n, LongBits, r)
<1>0. /\ eax \in 0 .. Long - 1 /\ edx \in 0 .. Long - 1 /\ eflags \in Eflags /\ Series
      /\ LongBits \in Nat /\ LongBits >= 1 /\ Long = Pow2(LongBits) /\ Long \in Nat /\ Long > 0
  BY WideWidths DEF WideInv, Registers
<1>1. CASE unhandled(reg)
  BY <1>1, SeriesKept DEF unhandled
<1>2. CASE /\ reg \notin {2, 3} /\ eax' = r /\ eflags' = f
           /\ IF hist.kind = "pair" /\ hist.pending > 0
              THEN hist' = IF reg \in {4, 6} /\ n = hist.pending
                           THEN [hist EXCEPT !.total = @ + n, !.pending = 0] ELSE NoHist
              ELSE Shifted(LongBits, reg, v, n)
           /\ UNCHANGED <<edx, status>>
  <2>1. reg \in ShiftRegs
    BY <1>2 DEF ShiftRegs
  <2>2. v \in Nat /\ v < Pow2(LongBits)
    BY <1>0
  <2>3. r \in 0 .. Long - 1
    BY <1>0, <2>1, <2>2, ResultFits
  <2>4. /\ eflags' \in Eflags /\ eflags'.cf = Bit(ShiftCarry(reg, v, n, LongBits, r))
        /\ reg \notin {0, 1} => eflags'.zf = Bit(r = 0)
    <3> HIDE DEF r, v
    <3>1. /\ f \in Eflags /\ f.cf = Bit(ShiftCarry(reg, v, n, LongBits, r))
          /\ reg \notin {0, 1} => f.zf = Bit(r = 0)
      BY <1>0, <2>1, FlagsOfShift
    <3> QED BY <1>2, <3>1 DEF f
  <2>5. Registers'
    BY <1>0, <1>2, <2>3, <2>4 DEF Registers
  <2>6. CASE hist.kind = "pair" /\ hist.pending > 0 /\ reg \in {4, 6} /\ n = hist.pending
    <3>1. OfPair
      BY <1>0, <2>6, SeriesKind
    <3>2. hist' = [hist EXCEPT !.total = @ + n, !.pending = 0]
      BY <1>2, <2>6
    <3>3. /\ hist \in [kind : {"pair"}, pending : Nat, from : Nat, total : Nat]
          /\ edx * Long + ((v * Pow2(n)) % Long)
               = (hist.from * Pow2(hist.total + n)) % (Long * Long)
      BY <2>6, <3>1 DEF OfPair
    <3>4. hist.total \in Nat /\ hist.total + n \in Nat /\ 0 \in Nat
      BY <3>3
    <3>5. hist' \in [kind : {"pair"}, pending : Nat, from : Nat, total : Nat]
      BY <3>2, <3>3, <3>4
    <3>6. hist'.from = hist.from /\ hist'.total = hist.total + n /\ hist'.pending = 0
      BY <3>2, <3>3
    <3>7. r = (v * Pow2(n)) % Long
      <4>1. r = Shl(v, n, LongBits)
        BY <2>6, ResultCases
      <4> QED BY <1>0, <4>1 DEF Shl
    <3>8. (r * Pow2(0)) % Long = r /\ (hist.total + n) + 0 = hist.total + n
      <4>1. Pow2(0) = 1
        BY PowStep
      <4> HIDE DEF r
      <4>2. r * 1 = r /\ r % Long = r /\ (hist.total + n) + 0 = hist.total + n
        BY <1>0, <2>3, <3>4
      <4> QED BY <4>1, <4>2
    <3>9. eax' = r /\ edx' = edx
      BY <1>2
    <3> HIDE DEF r
    <3>10. edx' * Long + ((eax' * Pow2(0)) % Long)
             = (hist.from * Pow2((hist.total + n) + 0)) % (Long * Long)
      BY <3>3, <3>7, <3>8, <3>9
    <3>11. OfPair'
      BY <3>5, <3>6, <3>10 DEF OfPair
    <3> QED BY <2>5, <3>11 DEF Series
  <2>7. CASE hist.kind = "pair" /\ hist.pending > 0 /\ ~(reg \in {4, 6} /\ n = hist.pending)
    BY <1>2, <2>5, <2>7 DEF Series
  <2>8. CASE ~(hist.kind = "pair" /\ hist.pending > 0)
    <3>1. Shifted(LongBits, reg, v, n)
      BY <1>2, <2>8
    <3>2. v = Operand(LongBits) /\ Operand(LongBits)' = r
      BY <1>2 DEF Operand
    <3>3. r = ShiftResult(reg, v, n, LongBits) /\ LongBits \in {ByteBits, LongBits}
          /\ (reg \in {0, 1, 7} => n <= LongBits)
      OBVIOUS
    <3> HIDE DEF r, v
    <3>4. OfShifts'
      BY <2>1, <2>2, <2>4, <3>1, <3>2, <3>3, SeriesOfShifts, Zenon
    <3> QED BY <2>5, <3>4 DEF Series
  <2> QED BY <2>6, <2>7, <2>8
<1> QED BY <1>1, <1>2 DEF shift_long

-------------------------------------------------------------------------------
(* The theorems.                                                             *)

\* The invariant holds at the start.
LEMMA WideStart == ASSUME WideInit PROVE WideInv
<1>1. NoFlags \in Eflags
  BY DEF NoFlags, Eflags
<1>2. hist.kind = "none" /\ hist = NoHist
  BY DEF WideInit, NoHist
<1>3. eax \in 0 .. Long - 1 /\ edx \in 0 .. Long - 1 /\ 0 \in 0 .. MaxOps
  BY WidthAssumption, WideAssumption DEF WideInit
<1> QED BY <1>1, <1>2, <1>3 DEF WideInit, WideInv, WideTypeOK, Registers, Series

\* Every instruction keeps it.
LEMMA WideStepKept ==
    ASSUME WideInv, ShiftStep \/ WideStep
    PROVE  Registers' /\ Series' /\ (status = "running" => status' \in {"running", "halted", "died"})
<1>0. LongBits \in Nat /\ LongBits >= 1 /\ 1 \in Nat /\ \A n \in Counts : masked(n) \in Nat /\ masked(n) <= LongBits
  <2>1. LongBits \in Nat /\ LongBits >= 1 /\ Counts \subseteq Nat
    BY WideWidths, WideAssumption
  <2> QED BY <2>1 DEF masked
<1>1. CASE ShiftStep
  <2>1. PICK reg \in 0 .. 7 : \/ op_d0_group(reg) \/ op_d1_group(reg)
                              \/ \E n \in Counts : \/ op_c0_group(reg, n) \/ op_d2_group(reg, n)
                                                   \/ op_c1_group(reg, n) \/ op_d3_group(reg, n)
    BY <1>1 DEF ShiftStep
  <2>2. PICK n \in Nat : n <= LongBits /\ (shift_byte(reg, n) \/ shift_long(reg, n))
    BY <1>0, <2>1 DEF op_d0_group, op_d1_group, op_c0_group, op_d2_group, op_c1_group, op_d3_group
  <2>3. Registers' /\ Series'
    BY <2>2, ShiftByteStep, ShiftLongStep
  <2>4. status = "running" => status' \in {"running", "halted", "died"}
    BY <2>2 DEF shift_byte, shift_long, unhandled
  <2> QED BY <2>3, <2>4
<1>2. ASSUME NEW n \in Counts, op_shld_rm32_r32_imm8(n)
      PROVE  Registers' /\ Series' /\ (status = "running" => status' \in {"running", "halted", "died"})
  <2>1. Registers' /\ Series'
    BY <1>2, ShldStep
  <2>2. status' = status
    BY <1>2 DEF op_shld_rm32_r32_imm8
  <2> QED BY <2>1, <2>2
<1>3. ASSUME NEW b \in LongArgs, \/ mul_long(b) \/ imul_long(b) \/ div_long(b) \/ idiv_long(b)
                                 \/ mov_eax(b) \/ mov_edx(b)
      PROVE  Registers' /\ Series' /\ (status = "running" => status' \in {"running", "halted", "died"})
  <2>1. Registers' /\ Series'
    BY <1>3, MulStep, DivLongStep, IdivLongStep, MovStep
  <2>2. status = "running" => status' \in {"running", "halted", "died"}
    BY <1>3 DEF mul_long, imul_long, Product, div_long, idiv_long, divide_by_zero, mov_eax, mov_edx
  <2> QED BY <2>1, <2>2
<1>4. ASSUME NEW b \in ByteArgs, mul_byte(b) \/ imul_byte(b) \/ div_byte(b) \/ idiv_byte(b)
      PROVE  Registers' /\ Series' /\ (status = "running" => status' \in {"running", "halted", "died"})
  <2>1. Registers' /\ Series'
    BY <1>4, MulStep, DivByteStep, IdivByteStep
  <2>2. status = "running" => status' \in {"running", "halted", "died"}
    BY <1>4 DEF mul_byte, imul_byte, div_byte, idiv_byte, divide_by_zero
  <2> QED BY <2>1, <2>2
<1>5. CASE op_cdq
  <2>1. Registers' /\ Series'
    BY <1>5, CdqStep
  <2>2. status' = status
    BY <1>5 DEF op_cdq
  <2> QED BY <2>1, <2>2
<1> QED BY <1>1, <1>2, <1>3, <1>4, <1>5 DEF WideStep

\* The invariant is inductive.
LEMMA WideKept == ASSUME WideInv, [WideNext]_wide_vars PROVE WideInv'
<1>1. CASE UNCHANGED wide_vars
  <2>1. UNCHANGED <<eax, edx, eflags, hist>> /\ UNCHANGED <<status, ops>>
    BY <1>1 DEF wide_vars
  <2>2. Registers' /\ Series'
    BY <2>1, SeriesKept
  <2>3. WideTypeOK'
    BY <2>1 DEF WideInv, WideTypeOK
  <2> QED BY <2>2, <2>3 DEF WideInv
<1>2. CASE ~Ended /\ ops' = ops + 1 /\ (ShiftStep \/ WideStep)
  <2>1. status = "running" /\ ops # MaxOps
    BY <1>2 DEF Ended
  <2>2. Registers' /\ Series' /\ status' \in {"running", "halted", "died"}
    BY <1>2, <2>1, WideStepKept
  <2>3. ops' \in 0 .. MaxOps
    BY <1>2, <2>1, WideAssumption DEF WideInv, WideTypeOK
  <2>4. hist'.kind \in {"none", "shift", "pair", "div", "mul", "undone", "cdq", "idiv"}
    BY <2>2 DEF Series, NoHist, OfShifts, OfPair, OfDivision, OfProduct, OfQuotient, OfCdq, OfIdiv
  <2> QED BY <2>2, <2>3, <2>4 DEF WideInv, WideTypeOK, Registers
<1> QED BY <1>1, <1>2 DEF WideNext

\* The registers keep their width and hold at every step what the series of
\* instructions executed last makes of them (ops.c).
THEOREM WideInvariant == WideSpec => []WideInv
<1>1. WideInit => WideInv
  BY WideStart
<1>2. WideInv /\ [WideNext]_wide_vars => WideInv'
  BY WideKept
<1> QED BY <1>1, <1>2, PTL DEF WideSpec

\* The registers keep their width whatever is shifted, multiplied or divided.
THEOREM WideTypes == WideSpec => []WideTypeOK
<1>1. WideInv => WideTypeOK
  BY DEF WideInv
<1> QED BY <1>1, WideInvariant, PTL

\* Any number of shifts or rotates of one kind, by immediate, CL or one, move
\* the operand by the sum of their counts and leave the last bit pushed out in
\* CF (op_c0_group, op_c1_group, op_d0_group to op_d3_group).
THEOREM ShiftsAddUp == WideSpec => []ShiftsCompose
<1>1. WideInv => ShiftsCompose
  <2> SUFFICES ASSUME WideInv, hist.kind = "shift" PROVE ShiftsCompose
    BY DEF ShiftsCompose
  <2>1. OfShifts
    BY SeriesKind DEF WideInv
  <2> QED BY <2>1 DEF OfShifts, ShiftsCompose, Shows, Operand, Move, Out, Left
<1> QED BY <1>1, WideInvariant, PTL

\* SHLD and SHL by the same counts, any number of times, shift EDX:EAX as one
\* number (op_shld_rm32_r32_imm8, op_c1_group).
THEOREM PairsShift == WideSpec => []PairShift
<1>1. WideInv => PairShift
  <2> SUFFICES ASSUME WideInv, hist.kind = "pair", hist.pending = 0
               PROVE  edx * Long + eax = (hist.from * Pow2(hist.total)) % (Long * Long)
    BY DEF PairShift
  <2>1. OfPair
    BY SeriesKind DEF WideInv
  <2>2. /\ hist.total \in Nat /\ eax \in 0 .. Long - 1 /\ Long \in Nat
        /\ edx * Long + ((eax * Pow2(0)) % Long)
             = (hist.from * Pow2(hist.total + 0)) % (Long * Long)
    BY <2>1, WideWidths DEF OfPair, WideInv, Registers
  <2>3. Pow2(0) = 1
    BY PowStep
  <2>4. eax * 1 = eax /\ eax % Long = eax /\ hist.total + 0 = hist.total
    BY <2>2
  <2> QED BY <2>2, <2>3, <2>4
<1> QED BY <1>1, WideInvariant, PTL

\* Repeated DIV divides a number of any length exactly (op_f7_group, DIV).
THEOREM DivisionExact == WideSpec => []LongDivision
<1>1. WideInv => LongDivision
  BY SeriesKind DEF WideInv, OfDivision, LongDivision
<1> QED BY <1>1, WideInvariant, PTL

\* Products are exact and division by a factor undoes them, signed or not, in
\* both widths (op_f6_group, op_f7_group).
THEOREM DivisionUndoes == WideSpec => []ProductsUndone
<1>1. WideInv => ProductsUndone
  <2> SUFFICES ASSUME WideInv PROVE ProductsUndone
    OBVIOUS
  <2>1. /\ hist.kind = "mul" => OfProduct
        /\ hist.kind = "undone" => OfQuotient
    BY SeriesKind DEF WideInv
  <2> QED BY <2>1, Zenon DEF OfProduct, OfQuotient, ProductsUndone, Number, Wide
<1> QED BY <1>1, WideInvariant, PTL

\* CDQ and IDIV divide EAX as C does (op_cdq, op_f7_group).
THEOREM SignedExact == WideSpec => []SignedDivision
<1>1. WideInv => SignedDivision
  <2> SUFFICES ASSUME WideInv, hist.kind = "idiv" PROVE SignedDivision
    BY DEF SignedDivision
  <2>1. OfIdiv
    BY SeriesKind DEF WideInv
  <2> QED BY <2>1 DEF OfIdiv, SignedDivision, Size
<1> QED BY <1>1, WideInvariant, PTL
===============================================================================
