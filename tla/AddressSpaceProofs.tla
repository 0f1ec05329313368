-------------------------- MODULE AddressSpaceProofs --------------------------
(***************************************************************************)
(* Proofs about guest memory: the address space (AddressSpace) for every   *)
(* memory size, page size and address width, and start-up (Boot) for every *)
(* program, argument list and layout, that satisfy their assumptions.      *)
(*                                                                         *)
(* The invariant the properties of AddressSpace rest on is that, as long   *)
(* as the process lives, g_mmap_ptr lies in the arena and above every      *)
(* mapping made from it.  A request whose uint32_t sum wraps would break   *)
(* it, but such a request is longer than guest memory, so the memset that  *)
(* follows kills the process; only where the arena starts at the end of    *)
(* memory does it fail instead, and then the pointer is below the arena    *)
(* for ever after (ArenaKept is FALSE).                                    *)
(*                                                                         *)
(* The invariant of start-up (BootInv) says, for each point of main and    *)
(* load_elf, what every part of guest memory holds: which segments are in  *)
(* place and how far the one being copied has come, the trampoline, the    *)
(* words of the stack and of the thread block.                             *)
(***************************************************************************)
EXTENDS AddressSpace, Boot, WellFoundedInduction, TLAPS

Limit == MemSize - StackReserve

\* While the process lives the arena pointer is in the arena, or where an
\* arena without room starts, or it was lost below such an arena.
PtrInArena ==
    alive => \/ ArenaBase <= g_mmap_ptr /\ g_mmap_ptr <= Limit
             \/ ~Room /\ g_mmap_ptr = ArenaBase
             \/ ~Room /\ g_mmap_ptr <= Limit

\* Arena mappings lie in the arena and, while the process lives, below the
\* pointer the next one starts from.
MapsBelowPtr ==
    ArenaKept =>
        \A m \in ArenaMaps :
            /\ ArenaBase <= m.addr
            /\ m.addr + m.size <= Limit
            /\ alive => m.addr + m.size <= g_mmap_ptr

\* Of two different arena mappings one ends before the other starts, or is
\* empty.
MapsApart ==
    ArenaKept =>
        \A m, n \in ArenaMaps :
            m = n \/ m.size = 0 \/ n.size = 0
                  \/ m.addr + m.size <= n.addr \/ n.addr + n.size <= m.addr

\* The guest's data lies in the memory it was given.
StoredOwned == stored \subseteq Owned

IInv == TypeOK /\ PtrInArena /\ MapsBelowPtr /\ MapsApart /\ StoredOwned

-------------------------------------------------------------------------------
\* The layout consists of two addresses, the arena's inside guest memory.
LEMMA LayoutType ==
    ASSUME TypeOK
    PROVE  HeapBase \in Nat /\ ArenaBase \in Nat /\ ArenaBase <= MemSize /\ g_brk \in Nat
<1>1. layout \in [heap : Nat \ {0}, arena : 1 .. MemSize]
  BY LayoutAssumption DEF TypeOK
<1>2. HeapBase \in Nat /\ ArenaBase \in 1 .. MemSize
  BY <1>1 DEF HeapBase, ArenaBase
<1> QED BY <1>2, SizesAssumption DEF TypeOK

\* AlignLen yields a natural number.
LEMMA AlignLenNat == ASSUME NEW len \in 0 .. WordMod - 1 PROVE AlignLen(len) \in Nat
<1> DEFINE up == (len + PageSize - 1) % WordMod
<1>1. up \in Nat
  BY SizesAssumption
<1>2. up - (up % PageSize) \in Nat
  <2> HIDE DEF up
  <2>1. up % PageSize \in 0 .. PageSize - 1 /\ up % PageSize <= up
    BY <1>1, SizesAssumption
  <2> QED BY <1>1, <2>1
<1> QED BY <1>2 DEF AlignLen

\* A request that passes the arena check either fits below the stack reserve
\* or, because the sum wrapped, is longer than what is left of guest memory.
LEMMA ArenaCheck ==
    ASSUME NEW p \in Nat, NEW size \in Nat, p < WordMod,
           ~((p + size) % WordMod > Limit)
    PROVE  \/ p + size <= Limit /\ (p + size) % WordMod = p + size
           \/ p + size > MemSize
<1>1. CASE p + size < WordMod
  <2>1. (p + size) % WordMod = p + size
    BY <1>1, SizesAssumption
  <2> QED BY <2>1, SizesAssumption DEF Limit
<1>2. CASE p + size >= WordMod
  BY <1>2, SizesAssumption
<1> QED BY <1>1, <1>2, SizesAssumption

\* The state main leaves behind satisfies it.
LEMMA InitIInv == Init => IInv
<1> SUFFICES ASSUME Init PROVE IInv
  OBVIOUS
<1> USE SizesAssumption DEF Init
<1>0. layout \in [heap : Nat \ {0}, arena : 1 .. MemSize]
  BY LayoutAssumption
<1>00. HeapBase \in Nat /\ ArenaBase \in 1 .. MemSize
  BY <1>0 DEF HeapBase, ArenaBase
<1>1. TypeOK
  BY <1>00 DEF TypeOK, Errno
<1>2. PtrInArena
  BY <1>00 DEF PtrInArena, Limit, Room
<1>3. MapsBelowPtr /\ MapsApart
  BY DEF MapsBelowPtr, MapsApart, ArenaMaps
<1>4. StoredOwned
  BY DEF StoredOwned
<1> QED BY <1>1, <1>2, <1>3, <1>4 DEF IInv

-------------------------------------------------------------------------------
\* sys_brk: only the break and the stored bytes change.
LEMMA BrkIInv ==
    ASSUME IInv, NEW b \in BrkArgs, sys_brk(b)
    PROVE  IInv'
<1> USE SizesAssumption, LayoutAssumption, InputsAssumption
<1>00. HeapBase \in Nat /\ g_brk \in Nat
  BY LayoutType DEF IInv
<1>0. /\ UNCHANGED <<g_mmap_ptr, layout, maps, alive>>
      /\ g_brk <= g_brk' /\ (g_brk' = g_brk \/ g_brk' \in HeapBase .. MemSize - 1)
      /\ stored' \subseteq stored
      /\ ret' = g_brk'
  BY <1>00 DEF IInv, TypeOK, sys_brk, BrkRefused
<1>01. HeapBase' = HeapBase
  BY <1>0 DEF HeapBase
<1>1. TypeOK'
  BY <1>0, <1>00, <1>01 DEF IInv, TypeOK, Errno, EINVAL, ENOSYS, ENOMEM, EFAULT
<1>2. (PtrInArena /\ MapsBelowPtr /\ MapsApart)'
  BY <1>0 DEF IInv, PtrInArena, MapsBelowPtr, MapsApart, ArenaMaps, ArenaKept, Room, ArenaBase
<1>3. StoredOwned'
  <2>1. Owned \subseteq Owned'
    BY <1>0, <1>00, <1>01 DEF IInv, TypeOK, Owned, Bytes
  <2> QED BY <1>0, <2>1 DEF IInv, StoredOwned
<1> QED BY <1>1, <1>2, <1>3 DEF IInv

\* The failing exits of sys_mmap2 change nothing but the returned value.
LEMMA FailIInv ==
    ASSUME IInv, NEW e \in Errno, mmap2_fail(e)
    PROVE  IInv'
BY DEF IInv, TypeOK, mmap2_fail, PtrInArena, MapsBelowPtr, MapsApart, ArenaMaps,
       StoredOwned, Owned, ArenaKept, Room, ArenaBase, HeapBase

\* The error codes the calls return are the ones of Errno.
LEMMA ErrnoIsErrno == {EINVAL, ENOSYS, ENOMEM, EFAULT} = Errno
BY DEF Errno

\* The new mapping m joins maps and its bytes are zeroed.
LEMMA AddMapOwned ==
    ASSUME IInv, NEW m \in Mapping, maps' = maps \cup {m},
           stored' = stored \ Bytes(m.addr, m.size), UNCHANGED <<g_brk, layout>>
    PROVE  StoredOwned'
<1>1. Owned \subseteq Owned'
  BY DEF Owned, HeapBase
<1> QED BY <1>1 DEF IInv, StoredOwned

\* A mapping from the arena: it starts at the pointer, which moves past it
\* unless the process dies.
LEMMA ArenaIInv ==
    ASSUME IInv, NEW len \in MapLens, sys_mmap2_arena(len)
    PROVE  IInv'
<1> DEFINE size == AlignLen(len)
           m == [addr |-> g_mmap_ptr, len |-> len, size |-> size, fixed |-> FALSE]
<1> USE SizesAssumption, LayoutAssumption, InputsAssumption
<1>1. CASE len = 0
  BY <1>1, FailIInv, ErrnoIsErrno DEF sys_mmap2_arena
<1>2. CASE len # 0 /\ ArenaFull(size)
  BY <1>2, FailIInv, ErrnoIsErrno DEF sys_mmap2_arena
<1>3. CASE len # 0 /\ ~ArenaFull(size)
  <2>0. size \in Nat
    BY AlignLenNat
  <2> HIDE DEF size
  <2>1. /\ alive
        /\ g_mmap_ptr' = (g_mmap_ptr + size) % WordMod
        /\ mmap2_zero(g_mmap_ptr, len, FALSE)
    BY <1>3 DEF sys_mmap2_arena, ArenaAdvance, size
  <2>2. /\ g_mmap_ptr \in Nat /\ g_mmap_ptr < WordMod
        /\ ArenaBase \in Nat /\ ArenaBase <= MemSize
    BY LayoutType DEF IInv, TypeOK
  <2>3. \/ g_mmap_ptr + size <= Limit /\ g_mmap_ptr' = g_mmap_ptr + size
        \/ g_mmap_ptr + size > MemSize
    BY <2>0, <2>1, <2>2, <1>3, ArenaCheck DEF ArenaFull, Limit
  <2>4. g_mmap_ptr' \in 0 .. WordMod - 1 /\ g_mmap_ptr' <= Limit
    BY <2>0, <2>1, <2>2, <1>3 DEF ArenaFull, Limit, size
  <2>5. UNCHANGED <<g_brk, layout>>
    BY <2>1 DEF mmap2_zero
  <2>6. /\ HeapBase' = HeapBase /\ ArenaBase' = ArenaBase /\ Room' = Room
        /\ (ArenaKept' => Room \/ ArenaBase <= g_mmap_ptr')
    BY <2>5 DEF HeapBase, ArenaBase, Room, ArenaKept
  <2>7. CASE g_mmap_ptr + size > MemSize
    \* The sum wrapped: nothing is mapped, and the process dies unless the
    \* arena starts at the end of memory.
    <3>1. /\ maps' = maps /\ stored' = stored
          /\ (alive' = FALSE \/ (alive' = alive /\ g_mmap_ptr >= MemSize))
          /\ (ret' = ret \/ ret' = EFAULT)
      BY <2>1, <2>7, Zenon DEF mmap2_zero, size
    <3>2. alive' => ~Room /\ ArenaBase = g_mmap_ptr
      BY <3>1, <2>1, <2>2 DEF IInv, PtrInArena, Limit, Room
    <3>3. ArenaMaps' = ArenaMaps
      BY <3>1 DEF ArenaMaps
    <3>4. TypeOK'
      BY <3>1, <2>4, <2>5, <2>6 DEF IInv, TypeOK, Errno
    <3>5. PtrInArena'
      BY <3>2, <2>4, <2>6 DEF PtrInArena
    <3>6. ASSUME ArenaKept' PROVE Room \/ ArenaBase <= g_mmap_ptr'
      BY <3>6, <2>6
    <3>7. ASSUME ArenaKept' PROVE ArenaKept /\ ~alive'
      <4>1. Room
        BY <3>6, <3>7, <2>2, <2>4 DEF Limit, Room
      <4> QED BY <4>1, <3>2 DEF ArenaKept
    <3>8. MapsBelowPtr' /\ MapsApart'
      BY <3>3, <3>7, <2>6, Zenon DEF IInv, MapsBelowPtr, MapsApart, Limit
    <3>9. StoredOwned'
      BY <3>1, <2>5 DEF IInv, StoredOwned, Owned, HeapBase
    <3> QED BY <3>4, <3>5, <3>8, <3>9 DEF IInv
  <2>8. CASE g_mmap_ptr + size <= MemSize
    <3>0. g_mmap_ptr + size <= Limit /\ g_mmap_ptr' = g_mmap_ptr + size
      BY <2>0, <2>2, <2>3, <2>8
    <3>00. ~(g_mmap_ptr + size > MemSize) /\ ~(g_mmap_ptr >= MemSize)
           /\ g_mmap_ptr <= Limit
      BY <2>0, <2>2, <2>8, <3>0 DEF Limit
    <3>1. /\ maps' = maps \cup {m}
          /\ stored' = stored \ Bytes(g_mmap_ptr, size)
          /\ ret' = g_mmap_ptr
          /\ alive' = alive
      BY <2>1, <3>00, Zenon DEF mmap2_zero, size
    <3>3. m \in Mapping
      BY <2>0, <2>2, <3>00, <2>8 DEF Mapping
    <3>4. TypeOK'
      BY <3>1, <3>3, <2>2, <2>4, <2>5, <2>6 DEF IInv, TypeOK
    <3>5. ArenaMaps' = ArenaMaps \cup {m}
      BY <3>1 DEF ArenaMaps
    <3>6. PtrInArena'
      BY <3>0, <3>00, <2>0, <2>1, <2>2, <2>6, SizesAssumption
         DEF IInv, PtrInArena, Limit, Room
    <3>7. \A n \in ArenaMaps : n \in Mapping
      BY DEF IInv, TypeOK, ArenaMaps
    <3>71. ASSUME ArenaKept' PROVE ArenaKept /\ ArenaBase <= g_mmap_ptr
      <4>1. Room \/ ArenaBase <= g_mmap_ptr'
        BY <3>71, <2>6
      <4>2. Room
        BY <4>1, <2>2, <2>4 DEF Room, Limit
      <4> QED BY <4>2, <2>1 DEF ArenaKept, IInv, PtrInArena
    <3>8. MapsBelowPtr'
      <4> SUFFICES ASSUME ArenaKept', NEW n \in ArenaMaps'
                   PROVE  /\ ArenaBase <= n.addr
                          /\ n.addr + n.size <= Limit
                          /\ n.addr + n.size <= g_mmap_ptr'
        BY <2>6 DEF MapsBelowPtr, Limit
      <4>1. CASE n = m
        BY <4>1, <3>0, <3>71, <2>0, <2>2
      <4>2. CASE n \in ArenaMaps
        <5>1. n.addr + n.size <= g_mmap_ptr /\ ArenaBase <= n.addr /\ n.addr + n.size <= Limit
          BY <4>2, <3>71, <2>1 DEF IInv, MapsBelowPtr
        <5> QED BY <4>2, <5>1, <3>0, <3>7, <2>0, <2>2 DEF Mapping
      <4> QED BY <4>1, <4>2, <3>5
    <3>9. MapsApart'
      <4>0. SUFFICES ASSUME ArenaKept'
            PROVE  \A x, y \in ArenaMaps' :
                     x = y \/ x.size = 0 \/ y.size = 0
                       \/ x.addr + x.size <= y.addr \/ y.addr + y.size <= x.addr
        BY DEF MapsApart
      <4>1. m.addr = g_mmap_ptr
        OBVIOUS
      <4>2. \A n \in ArenaMaps : n.addr + n.size <= m.addr
        BY <4>0, <4>1, <3>71, <2>1 DEF IInv, MapsBelowPtr
      <4> HIDE DEF m
      <4> QED BY <4>0, <4>2, <3>5, <3>71 DEF IInv, MapsApart
    <3>10. StoredOwned'
      BY <3>1, <3>3, <2>5, AddMapOwned
    <3> QED BY <3>4, <3>6, <3>8, <3>9, <3>10 DEF IInv
  <2> QED BY <2>0, <2>2, <2>7, <2>8
<1> QED BY <1>1, <1>2, <1>3

\* A mapping with MAP_FIXED leaves the arena's mappings and pointer alone.
LEMMA FixedIInv ==
    ASSUME IInv, NEW addr \in FixedAddrs, NEW len \in MapLens,
           sys_mmap2_fixed(addr, len)
    PROVE  IInv'
<1> DEFINE size == AlignLen(len)
           m == [addr |-> addr, len |-> len, size |-> size, fixed |-> TRUE]
<1> USE SizesAssumption, LayoutAssumption, InputsAssumption
<1>1. CASE len = 0
  BY <1>1, FailIInv, ErrnoIsErrno DEF sys_mmap2_fixed
<1>2. CASE len # 0 /\ addr + size > MemSize
  BY <1>2, FailIInv, ErrnoIsErrno DEF sys_mmap2_fixed
<1>3. CASE len # 0 /\ ~(addr + size > MemSize)
  <2>0. size \in Nat /\ addr \in Nat
    BY AlignLenNat
  <2>1. mmap2_zero(addr, len, TRUE) /\ UNCHANGED <<g_mmap_ptr, g_brk, layout>>
    BY <1>3, Zenon DEF sys_mmap2_fixed, mmap2_zero
  <2>2. CASE addr >= MemSize
    <3>1. mmap2_fail(EFAULT)
      BY <2>1, <2>2, Zenon DEF mmap2_zero, mmap2_fail
    <3> QED BY <3>1, FailIInv, ErrnoIsErrno
  <2>3. CASE ~(addr >= MemSize)
    <3>1. /\ maps' = maps \cup {m}
          /\ stored' = stored \ Bytes(addr, size)
          /\ ret' = addr
          /\ alive' = alive
      BY <1>3, <2>1, <2>3, Zenon DEF mmap2_zero
    <3> HIDE DEF size
    <3>2. m \in Mapping
      BY <1>3, <2>0, <2>3 DEF Mapping
    <3>3. TypeOK'
      BY <3>1, <3>2, <2>0, <2>1 DEF IInv, TypeOK, HeapBase
    <3>4. ArenaMaps' = ArenaMaps
      BY <3>1 DEF ArenaMaps
    <3>5. (PtrInArena /\ MapsBelowPtr /\ MapsApart)'
      BY <3>1, <3>4, <2>1 DEF IInv, PtrInArena, MapsBelowPtr, MapsApart, ArenaKept,
         Room, ArenaBase
    <3>6. StoredOwned'
      BY <3>1, <3>2, <2>1, AddMapOwned
    <3> QED BY <3>3, <3>5, <3>6 DEF IInv
  <2> QED BY <2>2, <2>3
<1> QED BY <1>1, <1>2, <1>3

\* The guest stores to a byte of its own.
LEMMA StoreIInv ==
    ASSUME IInv, NEW a \in StoreAddrs, GuestStore(a)
    PROVE  IInv'
BY InputsAssumption DEF IInv, TypeOK, GuestStore, PtrInArena, MapsBelowPtr,
   MapsApart, ArenaMaps, StoredOwned, Owned, ArenaKept, Room, ArenaBase, HeapBase

\* Every step preserves the inductive invariant.
LEMMA NextIInv == IInv /\ [Next]_vars => IInv'
<1> SUFFICES ASSUME IInv, [Next]_vars PROVE IInv'
  OBVIOUS
<1>1. CASE \E b \in BrkArgs : sys_brk(b)
  BY <1>1, BrkIInv
<1>2. CASE \E n \in MapLens : sys_mmap2_arena(n)
  BY <1>2, ArenaIInv
<1>3. CASE \E a \in FixedAddrs, n \in MapLens : sys_mmap2_fixed(a, n)
  BY <1>3, FixedIInv
<1>4. CASE \E n \in MapLens : sys_mmap2_file(n)
  BY <1>4, FailIInv, ErrnoIsErrno DEF sys_mmap2_file
<1>5. CASE sys_munmap
  BY <1>5 DEF sys_munmap, IInv, TypeOK, PtrInArena, MapsBelowPtr, MapsApart,
     ArenaMaps, StoredOwned, Owned, ArenaKept, Room, ArenaBase, HeapBase
<1>6. CASE \E a \in StoreAddrs : GuestStore(a)
  BY <1>6, StoreIInv
<1>7. CASE UNCHANGED vars
  BY <1>7 DEF vars, IInv, TypeOK, PtrInArena, MapsBelowPtr, MapsApart,
     ArenaMaps, StoredOwned, Owned, ArenaKept, Room, ArenaBase, HeapBase
<1> QED BY <1>1, <1>2, <1>3, <1>4, <1>5, <1>6, <1>7 DEF Next, Dead

\* The inductive invariant holds in every reachable state.
THEOREM InductiveInvariant == Spec => []IInv
BY InitIInv, NextIInv, PTL DEF Spec

\* The break and all mapped memory stay inside guest memory, for every memory
\* size and every sequence of brk and mmap2 calls.
THEOREM TypeCorrect == Spec => []TypeOK
<1>1. IInv => TypeOK
  BY DEF IInv
<1> QED BY <1>1, InductiveInvariant, PTL

\* Mappings of the arena never overlap and never leave it, whatever lengths
\* sys_mmap2 is called with and although its sums may wrap, in every layout
\* main can leave behind: for good where the program leaves room for an arena,
\* else until a wrapping request fails and loses the pointer.
THEOREM ArenaSafe == Spec => []ArenaDisjoint
<1>1. IInv => ArenaDisjoint
  <2> SUFFICES ASSUME IInv, ArenaKept, NEW m \in ArenaMaps
               PROVE  /\ ArenaBase <= m.addr
                      /\ m.addr + m.size <= MemSize - StackReserve
                      /\ \A n \in ArenaMaps : Overlap(m, n) => m = n
    BY DEF ArenaDisjoint
  <2>1. ArenaBase <= m.addr /\ m.addr + m.size <= MemSize - StackReserve
    BY DEF IInv, MapsBelowPtr, Limit
  <2>2. ASSUME NEW n \in ArenaMaps, Overlap(m, n) PROVE m = n
    <3>1. m \in Mapping /\ n \in Mapping
      BY DEF IInv, TypeOK, ArenaMaps
    <3>2. PICK a : a \in m.addr .. (m.addr + m.size - 1) /\
                   a \in n.addr .. (n.addr + n.size - 1)
      BY <2>2 DEF Overlap, Bytes
    <3> QED BY <3>1, <3>2, SizesAssumption DEF IInv, MapsApart, Mapping
  <2> QED BY <2>1, <2>2
<1> QED BY <1>1, InductiveInvariant, PTL

-------------------------------------------------------------------------------
\* While the heap is below the arena and no mapping is fixed, the bytes the
\* guest stored lie below the break or below the arena pointer.
LEMMA StoredBelow ==
    ASSUME IInv, ArenaKept, maps = ArenaMaps, NEW a \in stored
    PROVE  /\ a \in Nat
           /\ \/ a < g_brk
              \/ ArenaBase <= a /\ (alive => a < g_mmap_ptr)
<1> USE SizesAssumption, LayoutAssumption
<1>0. a \in Nat /\ HeapBase \in Nat /\ ArenaBase \in Nat /\ g_brk \in Nat
  BY LayoutType DEF IInv, TypeOK
<1>1. CASE a \in Bytes(HeapBase, g_brk - HeapBase)
  BY <1>0, <1>1 DEF Bytes
<1>2. CASE \E m \in maps : a \in Bytes(m.addr, m.size)
  <2>1. PICK m \in ArenaMaps : a \in m.addr .. (m.addr + m.size - 1)
    BY <1>2 DEF Bytes
  <2>2. m \in Mapping
    BY DEF IInv, TypeOK, ArenaMaps
  <2>3. ArenaBase <= m.addr /\ (alive => m.addr + m.size <= g_mmap_ptr)
    BY DEF IInv, MapsBelowPtr
  <2>4. g_mmap_ptr \in Nat
    BY DEF IInv, TypeOK
  <2>5. a < m.addr + m.size /\ m.addr <= a /\ m.addr \in Nat /\ m.size \in Nat
    BY <2>1, <2>2 DEF Mapping
  <2>6. ArenaBase <= a
    BY <1>0, <2>3, <2>5
  <2>7. alive => a < g_mmap_ptr
    BY <1>0, <2>3, <2>4, <2>5
  <2> QED BY <1>0, <2>6, <2>7
<1> QED BY <1>1, <1>2 DEF IInv, StoredOwned, Owned

\* No call loses a stored byte while the heap stays below the arena and
\* MAP_FIXED is not used: the header sys_brk writes and the bytes sys_mmap2
\* zeroes are new to the guest.
THEOREM DataSafe == Spec => StoresSurvive
<1> USE SizesAssumption, LayoutAssumption, InputsAssumption
<1>1. ASSUME IInv, [Next]_vars, ArenaKept, g_brk' <= ArenaBase, maps' = ArenaMaps'
      PROVE  stored \subseteq stored'
  <2>0. ArenaBase \in Nat /\ g_brk \in Nat
    BY <1>1, LayoutType DEF IInv
  <2>1. CASE \E b \in BrkArgs : sys_brk(b)
    <3>1. PICK b \in BrkArgs : sys_brk(b)
      BY <2>1
    <3>2. CASE BrkRefused(b)
      BY <3>1, <3>2 DEF sys_brk
    <3>3. CASE ~BrkRefused(b)
      <4>1. /\ g_brk' = b /\ stored' = stored \ ChunkHeader(b)
            /\ maps' = maps /\ ~(b < g_brk)
        BY <3>1, <3>3 DEF sys_brk, BrkRefused
      <4>2. maps = ArenaMaps
        BY <1>1, <4>1 DEF ArenaMaps
      <4>3. ASSUME NEW a \in stored PROVE a \notin ChunkHeader(b)
        BY <1>1, <2>0, <4>1, <4>2, StoredBelow DEF ChunkHeader, Bytes
      <4> QED BY <4>1, <4>3
    <3> QED BY <3>2, <3>3
  <2>2. CASE \E n \in MapLens : sys_mmap2_arena(n)
    <3>1. PICK n \in MapLens : sys_mmap2_arena(n)
      BY <2>2
    <3>2. CASE stored' = stored
      BY <3>2
    <3>3. CASE stored' # stored
      <4>1. /\ alive
            /\ stored' = stored \ Bytes(g_mmap_ptr, AlignLen(n))
            /\ maps \subseteq maps' /\ g_brk' = g_brk
        BY <3>1, <3>3 DEF sys_mmap2_arena, mmap2_fail, mmap2_zero
      <4>2. maps = ArenaMaps
        BY <1>1, <4>1 DEF ArenaMaps
      <4>3. ArenaBase <= g_mmap_ptr /\ g_mmap_ptr \in Nat
        BY <1>1, <2>0, <4>1 DEF IInv, PtrInArena, TypeOK, ArenaKept
      <4>4. AlignLen(n) \in Nat
        BY AlignLenNat
      <4>5. ASSUME NEW a \in stored PROVE a \notin Bytes(g_mmap_ptr, AlignLen(n))
        BY <1>1, <2>0, <4>1, <4>2, <4>3, <4>4, StoredBelow DEF Bytes
      <4> QED BY <4>1, <4>5
    <3> QED BY <3>2, <3>3
  <2>3. CASE \E a \in FixedAddrs, n \in MapLens : sys_mmap2_fixed(a, n)
    <3>1. PICK a \in FixedAddrs, n \in MapLens : sys_mmap2_fixed(a, n)
      BY <2>3
    <3>2. CASE stored' = stored
      BY <3>2
    <3>3. CASE stored' # stored
      <4> DEFINE m == [addr |-> a, len |-> n, size |-> AlignLen(n), fixed |-> TRUE]
      <4>1. maps' = maps \cup {m}
        BY <3>1, <3>3, Zenon DEF sys_mmap2_fixed, mmap2_fail, mmap2_zero
      <4>2. m \in maps' /\ m.fixed
        BY <4>1
      <4> QED BY <1>1, <4>2 DEF ArenaMaps
    <3> QED BY <3>2, <3>3
  <2>4. CASE \E n \in MapLens : sys_mmap2_file(n)
    BY <2>4 DEF sys_mmap2_file, mmap2_fail
  <2>5. CASE sys_munmap
    BY <2>5 DEF sys_munmap
  <2>6. CASE \E a \in StoreAddrs : GuestStore(a)
    BY <2>6 DEF GuestStore
  <2>7. CASE UNCHANGED vars
    BY <2>7 DEF vars
  <2> QED BY <1>1, <2>1, <2>2, <2>3, <2>4, <2>5, <2>6, <2>7 DEF Next, Dead
<1>2. IInv /\ [Next]_vars =>
        [(ArenaKept /\ g_brk' <= ArenaBase /\ maps' = ArenaMaps')
           => stored \subseteq stored']_vars
  BY <1>1
<1> QED BY <1>2, InductiveInvariant, PTL DEF Spec, StoresSurvive

-------------------------------------------------------------------------------
\* A mapping from the arena takes exactly the bytes the pointer moves over.
LEMMA GrantStep ==
    ASSUME IInv, ArenaKept, NEW n \in MapLens, sys_mmap2_arena(n)
    PROVE  \/ UNCHANGED <<g_brk, g_mmap_ptr, layout, maps, alive>>
           \/ Promise!Crash
           \/ Promise!Grant
<1> DEFINE size == AlignLen(n)
           m == [addr |-> g_mmap_ptr, len |-> n, size |-> size, fixed |-> FALSE]
<1> USE SizesAssumption, LayoutAssumption, InputsAssumption
<1>1. CASE n = 0 \/ ArenaFull(size)
  BY <1>1 DEF sys_mmap2_arena, mmap2_fail
<1>2. CASE n # 0 /\ ~ArenaFull(size)
  <2>1. /\ alive
        /\ g_mmap_ptr' = (g_mmap_ptr + size) % WordMod
        /\ mmap2_zero(g_mmap_ptr, n, FALSE)
        /\ g_brk' = g_brk /\ layout' = layout
    BY <1>2 DEF sys_mmap2_arena, ArenaAdvance, mmap2_zero
  <2>2. /\ size \in Nat /\ g_mmap_ptr \in Nat /\ g_mmap_ptr < WordMod
        /\ ArenaBase \in Nat /\ ArenaBase <= MemSize
    BY <2>1, AlignLenNat, LayoutType DEF IInv, TypeOK
  <2>3. g_mmap_ptr' \in Nat /\ g_mmap_ptr' <= Limit
    BY <1>2, <2>1, <2>2 DEF ArenaFull, Limit
  <2>4. ArenaBase' = ArenaBase /\ Room' = Room
    BY <2>1 DEF ArenaBase, Room
  <2>5. CASE g_mmap_ptr + size > MemSize
    <3>1. maps' = maps /\ (alive' = FALSE \/ g_mmap_ptr >= MemSize)
      BY <2>1, <2>5, Zenon DEF mmap2_zero
    <3>2. ArenaMaps' = ArenaMaps
      BY <3>1 DEF ArenaMaps
    <3>3. CASE alive' = FALSE
      BY <2>1, <3>2, <3>3, Zenon DEF Promise!Crash
    <3>4. CASE g_mmap_ptr >= MemSize
      <4>1. ~Room
        BY <2>1, <2>2, <3>4 DEF IInv, PtrInArena, Limit, Room
      <4>2. ~(ArenaBase <= g_mmap_ptr')
        BY <4>1, <2>2, <2>3 DEF Limit, Room
      <4>3. ~ArenaKept'
        BY <4>1, <4>2, <2>4 DEF ArenaKept
      <4> QED BY <2>1, <3>2, <4>3, Zenon DEF Promise!Crash
    <3> QED BY <3>1, <3>3, <3>4
  <2>6. CASE ~(g_mmap_ptr + size > MemSize)
    <3>0. g_mmap_ptr + size <= Limit /\ g_mmap_ptr' = g_mmap_ptr + size
      BY <1>2, <2>1, <2>2, <2>6, ArenaCheck DEF ArenaFull, Limit
    <3>1. ~(g_mmap_ptr >= MemSize)
      BY <3>0, <2>2 DEF Limit
    <3>2. maps' = maps \cup {m} /\ alive' = alive
      BY <2>1, <2>6, <3>1, Zenon DEF mmap2_zero
    <3>3. ArenaMaps' = ArenaMaps \cup {m}
      BY <3>2 DEF ArenaMaps
    <3>4. m.addr = g_mmap_ptr /\ m.size = size
      OBVIOUS
    <3>5. ArenaKept'
      <4>1. ArenaBase <= g_mmap_ptr =>  ArenaBase <= g_mmap_ptr'
        BY <3>0, <2>2
      <4> QED BY <4>1, <2>4 DEF ArenaKept
    <3> DEFINE Free == g_mmap_ptr .. (MemSize - StackReserve - 1)
               Granted == {Bytes(x.addr, x.size) : x \in ArenaMaps}
    <3> HIDE DEF m, size
    <3>6. Free' \subseteq Free /\ Free \ Free' = Bytes(g_mmap_ptr, size)
      BY <2>2, <3>0 DEF Limit, Bytes
    <3>7. Granted' = Granted \cup {Bytes(m.addr, m.size)}
      BY <3>3
    <3>8. Granted' = Granted \cup {Free \ Free'}
      BY <3>4, <3>6, <3>7
    <3> QED BY <2>1, <3>2, <3>5, <3>6, <3>8, Zenon DEF Promise!Grant
  <2> QED BY <2>5, <2>6
<1> QED BY <1>1, <1>2

\* A brk that moves the break is an Extend of the promise.
LEMMA ExtendStep ==
    ASSUME IInv, ArenaKept, NEW b \in BrkArgs, sys_brk(b)
    PROVE  UNCHANGED <<g_brk, g_mmap_ptr, layout, maps, alive>> \/ Promise!Extend
<1>1. CASE g_brk' = g_brk
  BY <1>1 DEF sys_brk
<1>2. CASE g_brk' # g_brk
  <2>0. g_brk \in Nat
    BY LayoutType DEF IInv
  <2>1. /\ alive /\ UNCHANGED <<g_mmap_ptr, layout, maps, alive>>
        /\ g_brk < g_brk' /\ g_brk' < MemSize
    BY <1>2, <2>0, SizesAssumption, InputsAssumption DEF sys_brk, BrkRefused
  <2>2. ArenaMaps' = ArenaMaps /\ ArenaKept' = ArenaKept
    BY <2>1 DEF ArenaMaps, ArenaKept, ArenaBase, Room
  <2> QED BY <2>1, <2>2, Zenon DEF Promise!Extend, Promise!HeapGrows
<1> QED BY <1>1, <1>2

\* MAP_FIXED is invisible to the promise.
LEMMA FixedStep ==
    ASSUME NEW a \in FixedAddrs, NEW n \in MapLens, IInv, sys_mmap2_fixed(a, n)
    PROVE  UNCHANGED <<g_brk, g_mmap_ptr, layout, ArenaMaps, alive>>
<1> DEFINE m == [addr |-> a, len |-> n, size |-> AlignLen(n), fixed |-> TRUE]
<1>1. UNCHANGED <<g_brk, g_mmap_ptr, layout>> /\ (maps' = maps \/ maps' = maps \cup {m})
  BY Zenon DEF sys_mmap2_fixed, mmap2_fail, mmap2_zero
<1>2. ArenaMaps' = ArenaMaps
  BY <1>1 DEF ArenaMaps
<1>3. alive' = alive
  BY Zenon DEF sys_mmap2_fixed, mmap2_fail, mmap2_zero
<1> QED BY <1>1, <1>2, <1>3

\* Once the process is dead or the arena pointer lost, it stays so, and the
\* heap still only grows.
LEMMA AfterStep ==
    ASSUME IInv, ~(alive /\ ArenaKept), Next
    PROVE  Promise!Afterwards
<1> USE SizesAssumption, InputsAssumption
<1>0. g_brk \in Nat /\ ArenaBase \in Nat /\ g_mmap_ptr \in Nat
  BY LayoutType DEF IInv, TypeOK
<1>1. layout' = layout /\ (g_brk' = g_brk \/ (g_brk < g_brk' /\ g_brk' < MemSize))
  <2>1. CASE \E b \in BrkArgs : sys_brk(b)
    BY <2>1, <1>0 DEF sys_brk, BrkRefused
  <2>2. CASE ~\E b \in BrkArgs : sys_brk(b)
    BY <2>2 DEF Next, Dead, vars, sys_mmap2_arena, sys_mmap2_fixed, sys_mmap2_file,
       sys_munmap, GuestStore, mmap2_fail, mmap2_zero
  <2> QED BY <2>1, <2>2
<1>2. ~(alive' /\ ArenaKept')
  <2>1. CASE ~alive
    BY <2>1 DEF Next, Dead, vars, sys_brk, sys_mmap2_arena, sys_mmap2_fixed,
       sys_mmap2_file, sys_munmap, GuestStore
  <2>2. CASE alive
    <3>1. ~Room /\ ~(ArenaBase <= g_mmap_ptr) /\ g_mmap_ptr <= Limit
      BY <2>2, <1>0 DEF ArenaKept, IInv, PtrInArena
    <3>2. g_mmap_ptr' = g_mmap_ptr \/ (g_mmap_ptr' \in Nat /\ g_mmap_ptr' <= Limit)
      <4>1. CASE \E n \in MapLens : sys_mmap2_arena(n)
        <5>1. PICK n \in MapLens : sys_mmap2_arena(n)
          BY <4>1
        <5>2. AlignLen(n) \in Nat
          BY AlignLenNat
        <5>3. \/ g_mmap_ptr' = g_mmap_ptr
              \/ /\ g_mmap_ptr' = (g_mmap_ptr + AlignLen(n)) % WordMod
                 /\ ~((g_mmap_ptr + AlignLen(n)) % WordMod > Limit)
          BY <5>1, Zenon DEF sys_mmap2_arena, mmap2_fail, ArenaFull, ArenaAdvance, Limit
        <5> QED BY <5>2, <5>3, <1>0 DEF Limit
      <4>2. CASE ~\E n \in MapLens : sys_mmap2_arena(n)
        BY <4>2 DEF Next, Dead, vars, sys_brk, sys_mmap2_fixed, sys_mmap2_file,
           sys_munmap, GuestStore, mmap2_fail, mmap2_zero
      <4> QED BY <4>1, <4>2
    <3>3. ~(ArenaBase <= g_mmap_ptr')
      BY <3>1, <3>2, <1>0 DEF Room, Limit
    <3> QED BY <3>1, <3>3, <1>1 DEF ArenaKept, ArenaBase, Room
  <2> QED BY <2>1, <2>2
<1> QED BY <1>1, <1>2, Zenon DEF Promise!Afterwards, Promise!HeapGrows

\* The break and the arena implement GuestMemoryPromise in every layout: the
\* heap only grows and a mapping consists of bytes that were free until then.
THEOREM Implements == Spec => KeepsPromise
<1>1. Init => Promise!PromiseInit
  <2> SUFFICES ASSUME Init PROVE Promise!PromiseInit
    OBVIOUS
  <2>1. ArenaMaps = {}
    BY DEF Init, ArenaMaps
  <2>2. TypeOK
    BY InitIInv DEF IInv
  <2>3. g_brk \in Nat /\ ArenaBase \in Nat /\ g_mmap_ptr = ArenaBase /\ alive = TRUE
    BY <2>2, LayoutType DEF Init
  <2>4. g_mmap_ptr .. (MemSize - StackReserve - 1) \subseteq 0 .. MemSize - 1
    BY <2>3, SizesAssumption
  <2>5. ArenaKept
    BY <2>3 DEF ArenaKept
  <2> QED BY <2>1, <2>3, <2>4, <2>5 DEF Promise!PromiseInit
<1>2. IInv /\ [Next]_vars => [Promise!PromiseNext]_(Promise!promiseVars)
  <2> SUFFICES ASSUME IInv, [Next]_vars
               PROVE  Promise!PromiseNext \/ UNCHANGED Promise!promiseVars
    OBVIOUS
  <2>0. ASSUME UNCHANGED <<g_brk, g_mmap_ptr, layout, ArenaMaps, alive>>
        PROVE  UNCHANGED Promise!promiseVars
    BY <2>0 DEF Promise!promiseVars, ArenaKept, ArenaBase, Room
  <2>00. ASSUME UNCHANGED <<g_brk, g_mmap_ptr, layout, maps, alive>>
         PROVE  UNCHANGED Promise!promiseVars
    BY <2>00, <2>0 DEF ArenaMaps
  <2>1. CASE UNCHANGED vars
    BY <2>1, <2>00 DEF vars
  <2>2. CASE Next /\ ~(alive /\ ArenaKept)
    BY <2>2, AfterStep DEF Promise!PromiseNext
  <2>3. CASE Next /\ ArenaKept
    <3>1. CASE \E b \in BrkArgs : sys_brk(b)
      BY <2>3, <3>1, <2>00, ExtendStep DEF Promise!PromiseNext
    <3>2. CASE \E n \in MapLens : sys_mmap2_arena(n)
      BY <2>3, <3>2, <2>00, GrantStep DEF Promise!PromiseNext
    <3>3. CASE \E a \in FixedAddrs, n \in MapLens : sys_mmap2_fixed(a, n)
      BY <3>3, <2>0, FixedStep
    <3>4. CASE \E n \in MapLens : sys_mmap2_file(n)
      BY <3>4, <2>00 DEF sys_mmap2_file, mmap2_fail
    <3>5. CASE sys_munmap
      BY <3>5, <2>00 DEF sys_munmap
    <3>6. CASE \E a \in StoreAddrs : GuestStore(a)
      BY <3>6, <2>00 DEF GuestStore
    <3>7. CASE Dead
      BY <3>7, <2>00 DEF Dead, vars
    <3> QED BY <2>3, <3>1, <3>2, <3>3, <3>4, <3>5, <3>6, <3>7 DEF Next
  <2> QED BY <2>1, <2>2, <2>3
<1> QED BY <1>1, <1>2, InductiveInvariant, PTL
        DEF Spec, KeepsPromise, Promise!PromiseSpec

-------------------------------------------------------------------------------
(* Start-up.                                                                 *)

(* Induction on the natural numbers, with the set where the claim holds.     *)

\* A set of naturals has a least element.
LEMMA Least ==
    ASSUME NEW T, T \subseteq Nat, T # {}
    PROVE  \E x \in T : \A y \in T : x <= y
<1> DEFINE R == {ss \in Nat \X Nat : ss[1] < ss[2]}
<1>1. IsWellFoundedOn(R, Nat)
  BY NatLessThanWellFounded DEF OpToRel
<1> HIDE DEF R
<1>2. PICK x \in T : \A y \in T : ~ (<<y, x>> \in R)
  BY <1>1, WFMin
<1>3. \A y \in T : <<y, x>>[1] = y /\ <<y, x>>[2] = x /\ <<y, x>> \in Nat \X Nat
  OBVIOUS
<1>4. \A y \in T : ~ (y < x)
  BY <1>2, <1>3, Zenon DEF R
<1>5. QED
  BY <1>2, <1>4

\* Induction in set form: T holds every natural number.
LEMMA Induction ==
    ASSUME NEW T, 0 \in T, \A n \in Nat : n \in T => n + 1 \in T
    PROVE  \A n \in Nat : n \in T
<1> DEFINE U == {n \in Nat : n \notin T}
<1> SUFFICES ASSUME U # {} PROVE FALSE
  OBVIOUS
<1>1. PICK x \in U : \A y \in U : x <= y
  BY Least
<1>2. x # 0 /\ x - 1 \in Nat
  BY <1>1
<1>3. x - 1 \in T
  BY <1>1, <1>2
<1>4. QED
  BY <1>1, <1>2, <1>3

-------------------------------------------------------------------------------
(* The initial stack's addresses.                                            *)

\* The recursive function of StringsBefore.
Sums(lens) ==
    CHOOSE f : f = [i \in 0 .. Len(lens) |-> IF i = 0 THEN 0 ELSE f[i - 1] + lens[i]]

\* StringsBefore is that function.
LEMMA StringsAreSums ==
    ASSUME NEW lens, NEW k
    PROVE  StringsBefore(lens, k) = Sums(lens)[k]
BY DEF StringsBefore, Sums

\* The recursive definition has a solution, so the sums satisfy it.
LEMMA SumsDefined ==
    ASSUME NEW lens, NEW n \in Nat, Len(lens) = n
    PROVE  Sums(lens) = [i \in 0 .. n |-> IF i = 0 THEN 0 ELSE Sums(lens)[i - 1] + lens[i]]
<1> DEFINE T == {j \in Nat : \E f : f = [i \in 0 .. j |->
                   IF i = 0 THEN 0 ELSE f[i - 1] + lens[i]]}
<1>1. 0 \in T
  <2> DEFINE f == [i \in 0 .. 0 |-> 0]
  <2>1. f = [i \in 0 .. 0 |-> IF i = 0 THEN 0 ELSE f[i - 1] + lens[i]]
    OBVIOUS
  <2>2. QED
    BY <2>1
<1>2. ASSUME NEW j \in Nat, j \in T PROVE j + 1 \in T
  <2>1. PICK f : f = [i \in 0 .. j |-> IF i = 0 THEN 0 ELSE f[i - 1] + lens[i]]
    BY <1>2
  <2> DEFINE g == [i \in 0 .. j + 1 |-> IF i = j + 1 THEN f[j] + lens[i] ELSE f[i]]
  <2>2. ASSUME NEW i \in 0 .. j + 1
        PROVE  g[i] = IF i = 0 THEN 0 ELSE g[i - 1] + lens[i]
    <3>1. CASE i = j + 1
      BY <3>1
    <3>2. CASE i # j + 1
      <4>1. i \in 0 .. j /\ g[i] = f[i] /\ (i # 0 => g[i - 1] = f[i - 1])
        BY <3>2
      <4>2. QED
        BY <4>1, <2>1
    <3>3. QED
      BY <3>1, <3>2
  <2> HIDE DEF g
  <2>3. g = [i \in 0 .. j + 1 |-> IF i = 0 THEN 0 ELSE g[i - 1] + lens[i]]
    BY <2>2 DEF g
  <2>4. QED
    BY <2>3
<1> HIDE DEF T
<1>3. n \in T
  BY <1>1, <1>2, Induction
<1>4. \E f : f = [i \in 0 .. n |-> IF i = 0 THEN 0 ELSE f[i - 1] + lens[i]]
  BY <1>3 DEF T
<1>5. Sums(lens) = CHOOSE f : f = [i \in 0 .. n |-> IF i = 0 THEN 0 ELSE f[i - 1] + lens[i]]
  BY DEF Sums
<1>6. QED
  BY <1>4, <1>5

\* One string more.
LEMMA StringsStep ==
    ASSUME NEW lens \in Seq(Nat \ {0})
    PROVE  /\ StringsBefore(lens, 0) = 0
           /\ \A k \in 1 .. Len(lens) :
                StringsBefore(lens, k) = StringsBefore(lens, k - 1) + lens[k]
<1> DEFINE n == Len(lens)
           f == Sums(lens)
<1>1. n \in Nat
  OBVIOUS
<1>2. f = [i \in 0 .. n |-> IF i = 0 THEN 0 ELSE f[i - 1] + lens[i]]
  BY <1>1, SumsDefined, Zenon
<1> HIDE DEF f, n
<1>3. f[0] = 0 /\ \A k \in 1 .. n : f[k] = f[k - 1] + lens[k]
  BY <1>1, <1>2
<1>4. QED
  BY <1>1, <1>3, StringsAreSums DEF f, n

\* The strings lie one behind the other.
LEMMA StringsOrdered ==
    ASSUME NEW lens \in Seq(Nat \ {0}), NEW k \in 0 .. Len(lens)
    PROVE  /\ StringsBefore(lens, k) \in Nat
           /\ \A i \in 1 .. k : StringsBefore(lens, i - 1) + lens[i] <= StringsBefore(lens, k)
<1> DEFINE n == Len(lens)
           s(j) == StringsBefore(lens, j)
           T == {j \in Nat : j <= n =>
                   s(j) \in Nat /\ \A i \in 1 .. j : s(i) \in Nat /\ s(i) <= s(j)}
<1>1. n \in Nat /\ k \in Nat /\ k <= n /\ \A j \in 1 .. n : lens[j] \in Nat
  OBVIOUS
<1>2. s(0) = 0 /\ \A j \in 1 .. n : s(j) = s(j - 1) + lens[j]
  BY StringsStep
<1> HIDE DEF n, s
<1>3. 0 \in T
  BY <1>2
<1>4. ASSUME NEW j \in Nat, j \in T PROVE j + 1 \in T
  <2> SUFFICES ASSUME j + 1 <= n
               PROVE  /\ s(j + 1) \in Nat
                      /\ \A i \in 1 .. j + 1 : s(i) \in Nat /\ s(i) <= s(j + 1)
    OBVIOUS
  <2>1. s(j) \in Nat /\ \A i \in 1 .. j : s(i) \in Nat /\ s(i) <= s(j)
    BY <1>4, <1>1
  <2>2. j + 1 \in 1 .. n /\ (j + 1) - 1 = j
    BY <1>1
  <2>3. s(j + 1) = s(j) + lens[j + 1] /\ lens[j + 1] \in Nat
    BY <1>1, <1>2, <2>2
  <2>4. s(j + 1) \in Nat /\ s(j) <= s(j + 1)
    BY <2>1, <2>3
  <2>5. QED
    BY <2>1, <2>4
<1> HIDE DEF T
<1>5. k \in T
  BY <1>1, <1>3, <1>4, Induction
<1>6. s(k) \in Nat /\ \A i \in 1 .. k : s(i) \in Nat /\ s(i) <= s(k)
  BY <1>1, <1>5 DEF T
<1>7. \A i \in 1 .. k : s(i) = s(i - 1) + lens[i]
  BY <1>1, <1>2
<1>8. QED
  BY <1>6, <1>7 DEF s

\* Rounding down to a multiple.
LEMMA DownFacts ==
    ASSUME NEW x \in Int
    PROVE  /\ AlignDown(x) \in Int /\ AlignDown(x) <= x
           /\ AlignDown(x) % Align = 0
<1>1. Align \in Nat /\ Align > 0
  BY StackAssumption
<1>2. x = Align * (x \div Align) + (x % Align) /\ x % Align \in 0 .. Align - 1 /\ x \div Align \in Int
  BY <1>1
<1>3. AlignDown(x) = Align * (x \div Align)
  BY <1>1, <1>2 DEF AlignDown
<1>4. (Align * (x \div Align)) % Align = 0
  <2> DEFINE q == x \div Align
  <2>1. q \in Int
    BY <1>2
  <2> HIDE DEF q
  <2>2. (Align * q) % Align = 0
    BY <1>1, <2>1
  <2> QED BY <2>2 DEF q
<1> QED BY <1>1, <1>2, <1>3, <1>4

\* Rounding up to a multiple.
LEMMA UpFacts ==
    ASSUME NEW x \in Nat, NEW g \in Nat, g > 0
    PROVE  /\ AlignUp(x, g) \in Nat /\ x <= AlignUp(x, g) /\ AlignUp(x, g) < x + g
           /\ AlignUp(x, g) % g = 0
<1> DEFINE up == x + g - 1
<1>0. up \in Nat /\ up = x + (g - 1)
  OBVIOUS
<1> HIDE DEF up
<1>1. up = g * (up \div g) + (up % g) /\ up % g \in 0 .. g - 1 /\ up \div g \in Nat
  BY <1>0
<1>2. AlignUp(x, g) = up - (up % g)
  BY DEF AlignUp, up
<1>3. (g * (up \div g)) % g = 0
  <2> DEFINE q == up \div g
  <2>1. q \in Nat
    BY <1>1
  <2> HIDE DEF q
  <2>2. (g * q) % g = 0
    BY <2>1
  <2> QED BY <2>2 DEF q
<1>4. AlignUp(x, g) = g * (up \div g)
  BY <1>0, <1>1, <1>2
<1> QED BY <1>0, <1>1, <1>2, <1>3, <1>4

\* Rounding up stays below a multiple.
LEMMA UpBound ==
    ASSUME NEW x \in Nat, NEW g \in Nat, g > 0, NEW b \in Nat, b % g = 0, x <= b
    PROVE  AlignUp(x, g) <= b
<1> DEFINE up == x + g - 1
           q == up \div g
           k == b \div g
<1>0. up \in Nat /\ up < b + g
  OBVIOUS
<1> HIDE DEF up
<1>1. up = g * q + (up % g) /\ up % g \in 0 .. g - 1 /\ q \in Nat
  BY <1>0
<1>2. b = g * k + (b % g) /\ k \in Nat
  OBVIOUS
<1>3. AlignUp(x, g) = up - (up % g)
  BY DEF AlignUp, up
<1>4. AlignUp(x, g) = g * q
  BY <1>0, <1>1, <1>3
<1> HIDE DEF q, k
<1>5. g * q < g * k + g
  BY <1>0, <1>1, <1>2
<1>6. q <= k
  <2>1. CASE q >= k + 1
    <3>1. g * q >= g * (k + 1)
      BY <2>1, <1>1, <1>2
    <3> QED BY <3>1, <1>5, <1>1, <1>2
  <2> QED BY <2>1, <1>1, <1>2
<1>7. g * q <= g * k
  BY <1>6, <1>1, <1>2
<1> QED BY <1>1, <1>2, <1>4, <1>7

\* The sizes the proofs need.
LEMMA BootSizes ==
    /\ MemTop \in Nat /\ WordBytes \in Nat /\ WordBytes > 0 /\ Align \in Nat /\ Align > 0
    /\ MaxArgs \in Nat /\ AuxEntries = 16 /\ RandBytes \in Nat
    /\ PageSize \in Nat /\ PageSize > 0 /\ ChunkLen \in Nat /\ ChunkLen > 0
    /\ StubAddr \in Nat /\ TlsSize \in Nat /\ HdrLen \in Nat /\ ArenaStart \in Nat
    /\ ArenaGrain \in Nat /\ ArenaGrain > 0
    /\ TlsSize >= 6 /\ TlsSize <= PageSize /\ TlsSize + HdrLen <= StubAddr
    /\ StubAddr % PageSize = 0
BY StackAssumption, BootAssumption

\* Guest memory is a whole number of pages and of the arena's steps.
LEMMA MemSteps ==
    /\ MemTop % PageSize = 0 /\ MemTop % ArenaGrain = 0 /\ ArenaStart <= MemTop - ArenaGrain
    /\ MemTop - ArenaGrain \in Nat /\ (MemTop - ArenaGrain) % ArenaGrain = 0
<1>1. /\ MemTop \in Nat /\ ArenaGrain \in Nat \ {0} /\ ArenaStart \in Nat
      /\ MemTop % PageSize = 0 /\ MemTop % ArenaGrain = 0 /\ ArenaStart <= MemTop - ArenaGrain
  BY StackAssumption, BootAssumption
<1> DEFINE k == MemTop \div ArenaGrain
<1>2. MemTop = ArenaGrain * k /\ k \in Nat
  BY <1>1
<1> HIDE DEF k
<1>3. MemTop - ArenaGrain \in Nat
  BY <1>1
<1>4. k >= 1 /\ MemTop - ArenaGrain = ArenaGrain * (k - 1) /\ k - 1 \in Nat
  <2>1. k # 0
    BY <1>1, <1>2, <1>3
  <2> QED BY <2>1, <1>1, <1>2
<1> DEFINE j == k - 1
<1> HIDE DEF j
<1>5. j \in Nat => (ArenaGrain * j) % ArenaGrain = 0
  BY <1>1
<1> QED BY <1>1, <1>3, <1>4, <1>5 DEF j

\* The stack lies in guest memory, above the trampoline: the block of argc,
\* argv and the auxiliary vector, then the strings, then the random words.
LEMMA StackPlaced ==
    ASSUME in \in Inputs
    PROVE  /\ in.args \in Seq(Nat \ {0}) /\ Argc \in 0 .. Len(in.args)
           /\ header_words(Argc) = Argc + 35
           /\ EspBase \in Nat /\ StubAddr + PageSize <= EspBase /\ EspBase % Align = 0
           /\ StrBase \in Nat /\ EspBase + (Argc + 35) <= StrBase
           /\ StringsBefore(in.args, Argc) \in Nat
           /\ RandomAddr \in Nat /\ RandomAddr = StrBase + StringsBefore(in.args, Argc)
           /\ RandomAddr + RandBytes < MemTop
<1> USE BootSizes
<1> DEFINE lens == in.args
           n == Argc
           s == StringsBefore(lens, n)
<1>1. lens \in Seq(Nat \ {0}) /\ StubAddr + PageSize <= esp_base(RandBytes + s, n)
  BY InputAssumption DEF Argc
<1>2. n \in 0 .. Len(lens)
  <2>1. Len(lens) \in Nat
    BY <1>1
  <2> QED BY <2>1 DEF Argc, guest_argc
<1>3. s \in Nat
  BY <1>1, <1>2, StringsOrdered, Zenon
<1> DEFINE top == str_area_top - (RandBytes + s)
           base == AlignDown(top)
           low == base - header_bytes(n)
<1>4. StrBase = base /\ EspBase = AlignDown(low) /\ RandomAddr = base + s
      /\ esp_base(RandBytes + s, n) = EspBase
  BY DEF StrBase, EspBase, RandomAddr, StringBytes, str_area_base, esp_base
<1> HIDE DEF s, n, lens
<1>5. top \in Int /\ top + RandBytes + s < MemTop
  BY <1>3 DEF str_area_top
<1> HIDE DEF top
<1>6. base \in Int /\ base <= top
  BY <1>5, DownFacts
<1> HIDE DEF base
<1>7. n \in Nat /\ header_words(n) = n + 35
  <2>1. n \in Nat
    BY <1>2
  <2> QED BY <2>1 DEF header_words
<1>8. header_bytes(n) \in Nat /\ header_bytes(n) >= n + 35
  <2>1. header_bytes(n) = (n + 35) * WordBytes
    BY <1>7 DEF header_bytes
  <2> DEFINE h == n + 35
  <2>2. h \in Nat
    BY <1>7
  <2> HIDE DEF h
  <2>3. h * WordBytes \in Nat /\ h * WordBytes >= h
    BY <2>2
  <2> QED BY <2>1, <2>2, <2>3 DEF h
<1>9. low \in Int /\ low + (n + 35) <= base
  BY <1>6, <1>7, <1>8
<1> HIDE DEF low
<1>10. AlignDown(low) \in Int /\ AlignDown(low) <= low /\ AlignDown(low) % Align = 0
  BY <1>9, DownFacts
<1>11. EspBase \in Nat /\ StubAddr + PageSize <= EspBase /\ EspBase % Align = 0 /\ EspBase <= low
  BY <1>1, <1>4, <1>10
<1>12. StrBase \in Nat /\ EspBase + (n + 35) <= StrBase
  BY <1>4, <1>6, <1>7, <1>9, <1>11
<1>13. RandomAddr \in Nat /\ RandomAddr = StrBase + s /\ RandomAddr + RandBytes < MemTop
  BY <1>3, <1>4, <1>5, <1>6, <1>12
<1> QED BY <1>1, <1>2, <1>3, <1>7, <1>11, <1>12, <1>13 DEF s, n, lens

\* Nothing of it moves while the input stays.
LEMMA StackFixed ==
    ASSUME in' = in
    PROVE  /\ Argc' = Argc /\ EspBase' = EspBase /\ StrBase' = StrBase /\ RandomAddr' = RandomAddr
           /\ \A i : ArgvAddr(i)' = ArgvAddr(i)
BY DEF Argc, EspBase, StrBase, RandomAddr, ArgvAddr, StringBytes

-------------------------------------------------------------------------------
(* The loader's locals.                                                      *)

Locals == [i : Nat, load_end : Nat, load_addr : Nat, first : BOOLEAN, remaining : Nat,
           dst : Nat, cursor : Nat]

\* The loader's locals are numbers and it never runs past its headers.
Typed ==
    /\ pc \in Steps /\ in \in Inputs /\ ld \in Locals
    /\ ld.i \in 1 .. Len(in.phdrs) + 1

\* The chunked copy of a segment: what is left, where it goes and where it
\* comes from move together.
Copying ==
    /\ pc \in {"stub", "ehdr"} => ld.i = 1
    /\ pc = "copy" =>
         /\ ld.i <= Len(in.phdrs) /\ ~Skipped(Seg) /\ ~TooBig(Seg)
         /\ ld.remaining <= Seg.filesz
         /\ ld.dst = Seg.vaddr + (Seg.filesz - ld.remaining)
         /\ ld.cursor = Seg.off + (Seg.filesz - ld.remaining)
    /\ pc = "stack" => ld.i > Len(in.phdrs)

\* The program headers of an input are records of numbers.
LEMMA PhdrTyped ==
    ASSUME in \in Inputs
    PROVE  /\ Len(in.phdrs) \in Nat
           /\ \A j \in 1 .. Len(in.phdrs) :
                /\ in.phdrs[j].vaddr \in Nat /\ in.phdrs[j].off \in Nat
                /\ in.phdrs[j].filesz \in Nat /\ in.phdrs[j].memsz \in Nat
<1> DEFINE P == [type : STRING, vaddr : Nat, off : Nat, filesz : Nat, memsz : Nat]
           ph == in.phdrs
<1>1. ph \in Seq(P)
  BY InputAssumption
<1> HIDE DEF ph
<1>2. Len(ph) \in Nat /\ \A j \in 1 .. Len(ph) : ph[j] \in P
  <2> HIDE DEF P
  <2> QED BY <1>1
<1>3. \A j \in 1 .. Len(ph) : /\ ph[j].vaddr \in Nat /\ ph[j].off \in Nat
                              /\ ph[j].filesz \in Nat /\ ph[j].memsz \in Nat
  BY <1>2
<1> QED BY <1>2, <1>3 DEF ph

\* The loader's locals one by one.
LEMMA LocalFields ==
    ASSUME Typed
    PROVE  /\ pc \in Steps /\ in \in Inputs /\ Len(in.phdrs) \in Nat
           /\ ld.i \in Nat /\ ld.i >= 1 /\ ld.i <= Len(in.phdrs) + 1
           /\ ld.load_end \in Nat /\ ld.load_addr \in Nat /\ ld.first \in BOOLEAN
           /\ ld.remaining \in Nat /\ ld.dst \in Nat /\ ld.cursor \in Nat
<1>1. ld \in Locals /\ Len(in.phdrs) \in Nat /\ ld.i \in 1 .. Len(in.phdrs) + 1
  BY PhdrTyped DEF Typed
<1>2. ld.i \in Nat /\ ld.i >= 1 /\ ld.i <= Len(in.phdrs) + 1
  BY <1>1
<1>3. /\ ld.load_end \in Nat /\ ld.load_addr \in Nat /\ ld.first \in BOOLEAN
      /\ ld.remaining \in Nat /\ ld.dst \in Nat /\ ld.cursor \in Nat
  BY <1>1 DEF Locals
<1> QED BY <1>1, <1>2, <1>3 DEF Typed

\* The header the loader is at.
LEMMA SegFields ==
    ASSUME Typed, ld.i <= Len(in.phdrs)
    PROVE  /\ ld.i \in 1 .. Len(in.phdrs) /\ Seg = in.phdrs[ld.i]
           /\ Seg.vaddr \in Nat /\ Seg.off \in Nat /\ Seg.filesz \in Nat /\ Seg.memsz \in Nat
<1>1. ld.i \in 1 .. Len(in.phdrs) /\ in \in Inputs
  BY LocalFields
<1> QED BY <1>1, PhdrTyped, Zenon DEF Seg

\* Updates of the locals.
LEMMA UpdateFields ==
    ASSUME NEW r \in Locals, NEW x \in Nat, NEW y \in Nat, NEW z \in Nat, NEW u \in Nat
    PROVE  /\ [r EXCEPT !.i = x] \in Locals /\ [r EXCEPT !.load_end = x] \in Locals
           /\ [r EXCEPT !.load_end = x, !.i = y] \in Locals
           /\ [r EXCEPT !.remaining = x, !.dst = y, !.cursor = z] \in Locals
           /\ [r EXCEPT !.load_addr = x, !.first = FALSE, !.remaining = y,
                        !.dst = z, !.cursor = u] \in Locals
BY DEF Locals

\* Headers keep their place while the index does.
LEMMA SegFixed == ASSUME in' = in, ld'.i = ld.i PROVE Seg' = Seg
BY DEF Seg

\* What a step does to the locals.
LEMMA SkipLocals ==
    ASSUME Typed, skip_phdr
    PROVE  /\ in' = in /\ pc' = "phdr" /\ pc = "phdr" /\ ld.i <= Len(in.phdrs) /\ Skipped(Seg)
           /\ mem' = mem /\ ld' \in Locals /\ ld'.i = ld.i + 1 /\ ld'.load_end = ld.load_end
           /\ ld'.load_addr = ld.load_addr
<1>1. /\ in' = in /\ pc' = "phdr" /\ pc = "phdr" /\ ld.i <= Len(in.phdrs) /\ Skipped(Seg)
      /\ mem' = mem /\ ld' = [ld EXCEPT !.i = ld.i + 1]
  BY DEF skip_phdr, next_phdr
<1>2. ld \in Locals /\ ld.i + 1 \in Nat
  BY LocalFields DEF Typed
<1>3. ld' \in Locals
  BY <1>1, <1>2, UpdateFields
<1>4. ld'.i = ld.i + 1 /\ ld'.load_end = ld.load_end /\ ld'.load_addr = ld.load_addr
  BY <1>1, <1>2 DEF Locals
<1> QED BY <1>1, <1>3, <1>4

\* The locals when clear_segment starts on a segment.
LEMMA ClearLocals ==
    ASSUME Typed, clear_segment
    PROVE  /\ in' = in /\ pc' = "copy" /\ pc = "phdr" /\ ld.i <= Len(in.phdrs)
           /\ ~Skipped(Seg) /\ ~TooBig(Seg) /\ mem' = ClearSegment(Seg)
           /\ ld' \in Locals /\ ld'.i = ld.i /\ ld'.load_end = ld.load_end
           /\ ld'.remaining = Seg.filesz /\ ld'.dst = Seg.vaddr /\ ld'.cursor = Seg.off
<1> DEFINE la == IF ld.first THEN Seg.vaddr ELSE ld.load_addr
<1>1. /\ in' = in /\ pc' = "copy" /\ pc = "phdr" /\ ld.i <= Len(in.phdrs)
      /\ ~Skipped(Seg) /\ ~TooBig(Seg) /\ mem' = ClearSegment(Seg)
      /\ ld' = [ld EXCEPT !.load_addr = la, !.first = FALSE, !.remaining = Seg.filesz,
                          !.dst = Seg.vaddr, !.cursor = Seg.off]
  BY DEF clear_segment
<1>2. ld \in Locals /\ la \in Nat /\ Seg.vaddr \in Nat /\ Seg.off \in Nat /\ Seg.filesz \in Nat
  BY <1>1, LocalFields, SegFields DEF Typed
<1> HIDE DEF la
<1>3. ld' \in Locals
  BY <1>1, <1>2, UpdateFields
<1>4. /\ ld'.i = ld.i /\ ld'.load_end = ld.load_end
      /\ ld'.remaining = Seg.filesz /\ ld'.dst = Seg.vaddr /\ ld'.cursor = Seg.off
  BY <1>1, <1>2 DEF Locals
<1> QED BY <1>1, <1>3, <1>4

\* The locals when copy_chunk has copied a chunk.
LEMMA ChunkLocals ==
    ASSUME Typed, copy_chunk
    PROVE  /\ in' = in /\ pc' = "copy" /\ pc = "copy"
           /\ ToRead \in Nat /\ ToRead > 0 /\ ToRead <= ld.remaining
           /\ ld' \in Locals /\ ld'.i = ld.i /\ ld'.load_end = ld.load_end
           /\ ld'.remaining = ld.remaining - ToRead
           /\ ld'.dst = ld.dst + ToRead /\ ld'.cursor = ld.cursor + ToRead
<1>1. in' = in /\ pc' = "copy" /\ pc = "copy" /\ ld.remaining > 0 /\ ld' = AfterChunk
  BY DEF copy_chunk
<1>2. ld \in Locals /\ ld.remaining \in Nat /\ ld.dst \in Nat /\ ld.cursor \in Nat
  BY LocalFields DEF Typed
<1>3. ToRead \in Nat /\ ToRead > 0 /\ ToRead <= ld.remaining
  BY <1>1, <1>2, BootSizes DEF ToRead
<1> DEFINE r == ld.remaining - ToRead
           d == ld.dst + ToRead
           c == ld.cursor + ToRead
<1>4. r \in Nat /\ d \in Nat /\ c \in Nat
  BY <1>2, <1>3
<1>5. ld' = [ld EXCEPT !.remaining = r, !.dst = d, !.cursor = c]
  BY <1>1 DEF AfterChunk
<1> HIDE DEF r, d, c
<1>6. ld' \in Locals
  BY <1>2, <1>4, <1>5, UpdateFields
<1>7. ld'.i = ld.i /\ ld'.load_end = ld.load_end /\ ld'.remaining = r /\ ld'.dst = d /\ ld'.cursor = c
  BY <1>2, <1>5 DEF Locals
<1> QED BY <1>1, <1>3, <1>6, <1>7 DEF r, d, c

\* The locals when end_segment goes on to the next header.
LEMMA EndSegmentLocals ==
    ASSUME Typed, Copying, end_segment
    PROVE  /\ in' = in /\ mem' = mem /\ pc' = "phdr" /\ pc = "copy" /\ ld.remaining = 0
           /\ ld' \in Locals /\ ld'.i = ld.i + 1
           /\ ld'.load_end = IF SegEnd > ld.load_end THEN SegEnd ELSE ld.load_end
<1> DEFINE e == IF SegEnd > ld.load_end THEN SegEnd ELSE ld.load_end
           k == ld.i + 1
<1>1. /\ in' = in /\ mem' = mem /\ pc' = "phdr" /\ pc = "copy" /\ ld.remaining = 0
      /\ ld' = [ld EXCEPT !.load_end = e, !.i = k]
  BY DEF end_segment
<1>2. ld.i <= Len(in.phdrs)
  BY <1>1 DEF Copying
<1>3. ld \in Locals /\ k \in Nat /\ e \in Nat
  <2>1. SegEnd \in Nat
    BY <1>2, SegFields DEF SegEnd
  <2> QED BY <2>1, LocalFields DEF Typed
<1> HIDE DEF e, k
<1>4. ld' \in Locals
  BY <1>1, <1>3, UpdateFields
<1>5. ld'.i = k /\ ld'.load_end = e
  BY <1>1, <1>3 DEF Locals
<1> QED BY <1>1, <1>4, <1>5 DEF e, k

\* The locals when end_load rounds load_end up.
LEMMA EndLoadLocals ==
    ASSUME Typed, end_load
    PROVE  /\ in' = in /\ mem' = mem /\ pc' = "stack" /\ pc = "phdr" /\ ld.i > Len(in.phdrs)
           /\ eip' = in.entry /\ ld' \in Locals /\ ld'.i = ld.i
           /\ ld'.load_end = AlignUp(ld.load_end, PageSize)
           /\ ld'.load_end \in Nat /\ ld.load_end <= ld'.load_end
           /\ ld'.load_end < ld.load_end + PageSize
<1> DEFINE e == AlignUp(ld.load_end, PageSize)
<1>1. /\ in' = in /\ mem' = mem /\ pc' = "stack" /\ pc = "phdr" /\ ld.i > Len(in.phdrs)
      /\ eip' = in.entry /\ ld' = [ld EXCEPT !.load_end = e]
  BY DEF end_load
<1>2. ld \in Locals /\ ld.load_end \in Nat
  BY LocalFields DEF Typed
<1>3. e \in Nat /\ ld.load_end <= e /\ e < ld.load_end + PageSize
  BY <1>2, BootSizes, UpFacts
<1> HIDE DEF e
<1>4. ld' \in Locals
  BY <1>1, <1>2, <1>3, UpdateFields
<1>5. ld'.i = ld.i /\ ld'.load_end = e
  BY <1>1, <1>2 DEF Locals
<1> QED BY <1>1, <1>3, <1>4, <1>5 DEF e

\* A chunk further.
LEMMA Further ==
    ASSUME NEW v \in Nat, NEW f \in Nat, NEW r \in Nat, NEW n \in Nat
    PROVE  (v + (f - r)) + n = v + (f - (r - n))
OBVIOUS

\* The other steps leave the locals alone.
Later == build_stack \/ write_chunk \/ fill_tls \/ clear_below_tls \/ write_tcb \/ place_arena

\* A step is one of the loader, one that comes after it, or a failure, a
\* passed check or a stutter, which change at most pc.
LEMMA StepCases ==
    ASSUME Typed, [BootNext]_boot_vars
    PROVE  \/ skip_phdr \/ clear_segment \/ copy_chunk \/ end_segment \/ end_load
           \/ write_stub \/ Later
           \/ UNCHANGED <<in, mem, ld, eip, esp, g_brk, gs_base, g_mmap_ptr>>
              /\ ((pc # "stub" /\ pc' = "failed") \/ pc' = pc \/ (pc = "ehdr" /\ pc' = "phdr"))
<1>1. CASE Fail /\ pc # "stub"
  BY <1>1 DEF Fail, regs
<1>2. CASE check_header
  BY <1>1, <1>2 DEF check_header, regs
<1>3. CASE UNCHANGED boot_vars
  BY <1>3 DEF boot_vars
<1>4. CASE read_phdr_fails \/ segment_too_big \/ short_read
  BY <1>1, <1>4 DEF read_phdr_fails, segment_too_big, short_read
<1> QED BY <1>2, <1>3, <1>4, Zenon DEF BootNext, Stopped, Later

\* The locals one step later.
LEMMA LocalsStep ==
    ASSUME Typed, Copying, [BootNext]_boot_vars
    PROVE  in' = in /\ Typed' /\ Copying'
<1> USE LocalFields
<1>2. CASE UNCHANGED <<in, ld>> /\ pc' \in Steps
           /\ (pc' \in {"stub", "ehdr"} => pc \in {"stub", "ehdr"})
           /\ (pc' = "copy" => pc = "copy") /\ (pc' = "stack" => pc = "stack")
  BY <1>2 DEF Typed, Copying, Seg
<1>3. CASE write_stub
  BY <1>3, <1>2 DEF write_stub, Steps
<1>6. CASE skip_phdr
  BY <1>6, SkipLocals DEF Typed, Copying
<1>7. CASE clear_segment
  <2>1. Seg' = Seg /\ Typed' /\ pc' = "copy"
    BY <1>7, ClearLocals, SegFixed DEF Typed, Steps
  <2>2. Seg.vaddr \in Nat /\ Seg.off \in Nat /\ Seg.filesz \in Nat
    BY <1>7, ClearLocals, SegFields
  <2>3. /\ in' = in /\ ld'.i <= Len(in.phdrs) /\ ~Skipped(Seg) /\ ~TooBig(Seg)
        /\ ld'.remaining = Seg.filesz /\ ld'.dst = Seg.vaddr /\ ld'.cursor = Seg.off
    BY <1>7, ClearLocals
  <2>4. Copying'
    BY <2>1, <2>2, <2>3 DEF Copying, Skipped, TooBig
  <2> QED BY <2>1, <2>3, <2>4
<1>8. CASE copy_chunk
  <2>1. Seg' = Seg /\ Typed' /\ pc' = "copy" /\ pc = "copy" /\ in' = in
    BY <1>8, ChunkLocals, SegFixed DEF Typed, Steps
  <2>2. Seg.vaddr \in Nat /\ Seg.off \in Nat /\ Seg.filesz \in Nat /\ ld.i <= Len(in.phdrs)
    BY <2>1, SegFields DEF Copying
  <2>3. /\ ld'.i = ld.i /\ ToRead \in Nat /\ ToRead <= ld.remaining
        /\ ld'.remaining = ld.remaining - ToRead
        /\ ld'.dst = ld.dst + ToRead /\ ld'.cursor = ld.cursor + ToRead
    BY <1>8, ChunkLocals
  <2>4. /\ ~Skipped(Seg) /\ ~TooBig(Seg) /\ ld.remaining <= Seg.filesz
        /\ ld.dst = Seg.vaddr + (Seg.filesz - ld.remaining)
        /\ ld.cursor = Seg.off + (Seg.filesz - ld.remaining)
        /\ ld.remaining \in Nat
    BY <2>1 DEF Copying
  <2>5. /\ ld'.remaining <= Seg.filesz
        /\ ld'.dst = Seg.vaddr + (Seg.filesz - ld'.remaining)
        /\ ld'.cursor = Seg.off + (Seg.filesz - ld'.remaining)
    <3> DEFINE v == Seg.vaddr
               o == Seg.off
               f == Seg.filesz
               r == ld.remaining
               n == ToRead
    <3>1. v \in Nat /\ o \in Nat /\ f \in Nat /\ r \in Nat /\ n \in Nat /\ n <= r /\ r <= f
      BY <2>2, <2>3, <2>4
    <3>2. /\ ld'.remaining = r - n /\ ld'.dst = (v + (f - r)) + n
          /\ ld'.cursor = (o + (f - r)) + n
      BY <2>3, <2>4
    <3> HIDE DEF v, o, f, r, n
    <3>3. r - n <= f
      BY <3>1
    <3>4. (v + (f - r)) + n = v + (f - (r - n)) /\ (o + (f - r)) + n = o + (f - (r - n))
      BY <3>1, Further
    <3> QED BY <3>2, <3>3, <3>4 DEF v, o, f, r, n
  <2>6. Copying'
    BY <2>1, <2>2, <2>3, <2>4, <2>5 DEF Copying, Skipped, TooBig
  <2> QED BY <2>1, <2>6
<1>9. CASE end_segment
  <2>1. ld.i <= Len(in.phdrs)
    BY <1>9, EndSegmentLocals DEF Copying
  <2> QED BY <2>1, <1>9, EndSegmentLocals DEF Typed, Copying, Steps
<1>10. CASE end_load
  BY <1>10, EndLoadLocals DEF Typed, Copying, Steps
<1>11. CASE Later
  BY <1>11, <1>2 DEF Later, build_stack, write_chunk, fill_tls, clear_below_tls, write_tcb,
                     place_arena, regs, Steps
<1>12. CASE UNCHANGED <<in, mem, ld, eip, esp, g_brk, gs_base, g_mmap_ptr>>
              /\ ((pc # "stub" /\ pc' = "failed") \/ pc' = pc \/ (pc = "ehdr" /\ pc' = "phdr"))
  <2>1. pc' \in Steps
    BY <1>12 DEF Steps
  <2> QED BY <1>12, <1>2, <2>1
<1> QED BY <1>3, <1>6, <1>7, <1>8, <1>9, <1>10, <1>11, <1>12, StepCases

-------------------------------------------------------------------------------
(* Where the program ends and what stands in the registers.                  *)

SegsAbove == \A j \in Segs : in.phdrs[j].vaddr >= StubAddr + PageSize

\* load_end lies behind every segment loaded so far, hardly past guest memory,
\* and, if there is no segment below it, above the trampoline's page.
EndKnown ==
    /\ ld.load_end <= MemTop
    /\ SegsAbove => ld.load_end = 0 \/ ld.load_end > StubAddr + PageSize

\* The registers and variables main and load_elf set.
Started ==
    /\ pc \in {"stack", "chunk", "fill", "clear", "tcb", "arena", "run"} => eip = in.entry
    /\ pc \in {"chunk", "fill", "clear", "tcb", "arena", "run"} => esp = EspBase
    /\ pc \in {"fill", "clear", "tcb", "arena", "run"} => g_brk = ld.load_end + (TlsSize + HdrLen)
    /\ pc \in {"arena", "run"} => gs_base = ld.load_end + HdrLen
    /\ pc = "run" => g_mmap_ptr = arena_start

\* Which segments there are depends on the input alone.
LEMMA SegsAboveFixed == ASSUME in' = in PROVE Segs' = Segs /\ SegsAbove' = SegsAbove
BY DEF Segs, SegsAbove, Skipped

\* end_segment and end_load keep the bounds on load_end.
LEMMA EndKnownStep ==
    ASSUME Typed, Copying, EndKnown, [BootNext]_boot_vars
    PROVE  EndKnown'
<1> USE BootSizes
<1>0. in' = in /\ SegsAbove' = SegsAbove /\ ld.load_end \in Nat
  BY LocalsStep, SegsAboveFixed, LocalFields
<1>1. CASE /\ ld'.load_end = ld.load_end
           /\ pc' \in {"stub", "ehdr", "phdr", "copy"} => pc \in {"stub", "ehdr", "phdr", "copy"}
  BY <1>0, <1>1 DEF EndKnown
<1>2. CASE skip_phdr \/ clear_segment \/ copy_chunk
  BY <1>2, <1>1, SkipLocals, ClearLocals, ChunkLocals
<1>3. CASE end_segment
  <2>1. /\ pc = "copy" /\ pc' = "phdr"
        /\ ld'.load_end = IF SegEnd > ld.load_end THEN SegEnd ELSE ld.load_end
    BY <1>3, EndSegmentLocals
  <2>2. ld.i <= Len(in.phdrs) /\ ~Skipped(Seg) /\ ~TooBig(Seg)
    BY <2>1 DEF Copying
  <2>3. Seg.vaddr \in Nat /\ Seg.memsz \in Nat /\ Seg.memsz # 0 /\ SegEnd \in Nat /\ SegEnd <= MemTop
        /\ SegEnd = Seg.vaddr + Seg.memsz
    BY <2>2, SegFields DEF SegEnd, TooBig, Skipped
  <2>4. SegsAbove => SegEnd > StubAddr + PageSize
    <3> SUFFICES ASSUME SegsAbove PROVE SegEnd > StubAddr + PageSize
      OBVIOUS
    <3>1. ld.i \in Segs
      BY <2>2, SegFields DEF Segs
    <3>2. Seg.vaddr >= StubAddr + PageSize
      BY <3>1, <2>2, SegFields DEF SegsAbove
    <3> QED BY <3>2, <2>3
  <2> QED BY <2>1, <2>3, <2>4, <1>0 DEF EndKnown
<1>4. CASE end_load
  <2>1. /\ pc = "phdr" /\ pc' = "stack" /\ ld'.load_end = AlignUp(ld.load_end, PageSize)
        /\ ld'.load_end \in Nat /\ ld.load_end <= ld'.load_end
        /\ ld'.load_end < ld.load_end + PageSize
    BY <1>4, EndLoadLocals
  <2>2. ld.load_end = 0 => ld'.load_end = 0
    <3> SUFFICES ASSUME ld.load_end = 0 PROVE ld'.load_end = 0
      OBVIOUS
    <3>1. ld'.load_end = AlignUp(0, PageSize)
      BY <2>1
    <3>2. AlignUp(0, PageSize) = 0
      <4>1. (PageSize - 1) % PageSize = PageSize - 1 /\ 0 + PageSize - 1 = PageSize - 1
        OBVIOUS
      <4> QED BY <4>1 DEF AlignUp
    <3> QED BY <3>1, <3>2
  <2>3. ld.load_end <= MemTop
    BY <2>1 DEF EndKnown
  <2>4. ld'.load_end <= MemTop
    BY <2>1, <2>3, <1>0, BootSizes, MemSteps, UpBound
  <2>5. SegsAbove => ld'.load_end = 0 \/ ld'.load_end > StubAddr + PageSize
    BY <2>1, <2>2, <1>0 DEF EndKnown
  <2> QED BY <2>1, <2>4, <2>5, <1>0 DEF EndKnown
<1>5. CASE write_stub
  BY <1>5, <1>1 DEF write_stub
<1>6. CASE Later
  BY <1>6, <1>1 DEF Later, build_stack, write_chunk, fill_tls, clear_below_tls, write_tcb,
                    place_arena, regs
<1>7. CASE UNCHANGED <<in, mem, ld, eip, esp, g_brk, gs_base, g_mmap_ptr>>
           /\ ((pc # "stub" /\ pc' = "failed") \/ pc' = pc \/ (pc = "ehdr" /\ pc' = "phdr"))
  BY <1>7, <1>1
<1> QED BY <1>2, <1>3, <1>4, <1>5, <1>6, <1>7, StepCases

\* Each register is set once and kept.
LEMMA StartedStep ==
    ASSUME Typed, Copying, Started, [BootNext]_boot_vars
    PROVE  Started'
<1>0. in' = in /\ EspBase' = EspBase /\ pc \in Steps
  BY LocalsStep, StackFixed, LocalFields
<1>1. CASE pc' \in {"stub", "ehdr", "phdr", "copy", "failed"}
  BY <1>1 DEF Started
<1>2. CASE end_load
  BY <1>2, <1>0, EndLoadLocals DEF Started
<1>3. CASE Later
  <2>1. ld' = ld /\ arena_start' = arena_start
    BY <1>3 DEF Later, build_stack, write_chunk, fill_tls, clear_below_tls, write_tcb,
                place_arena, regs, arena_start
  <2>2. CASE build_stack
    BY <2>2, <2>1, <1>0 DEF build_stack, Started
  <2>3. CASE write_chunk
    BY <2>3, <2>1, <1>0 DEF write_chunk, Started, ChunkBase, ChunkSize
  <2>4. CASE fill_tls
    BY <2>4, <2>1, <1>0 DEF fill_tls, regs, Started
  <2>5. CASE clear_below_tls
    BY <2>5, <2>1, <1>0 DEF clear_below_tls, regs, Started
  <2>6. CASE write_tcb
    BY <2>6, <2>1, <1>0 DEF write_tcb, Started, FakeTls, ChunkBase
  <2>7. CASE place_arena
    BY <2>7, <2>1, <1>0 DEF place_arena, Started
  <2> QED BY <1>3, <2>2, <2>3, <2>4, <2>5, <2>6, <2>7 DEF Later
<1>4. CASE skip_phdr \/ clear_segment \/ copy_chunk \/ end_segment \/ write_stub
  BY <1>4, <1>1, SkipLocals, ClearLocals, ChunkLocals, EndSegmentLocals DEF write_stub
<1>5. CASE UNCHANGED <<in, mem, ld, eip, esp, g_brk, gs_base, g_mmap_ptr>>
           /\ ((pc # "stub" /\ pc' = "failed") \/ pc' = pc \/ (pc = "ehdr" /\ pc' = "phdr"))
  <2>1. CASE pc' = pc
    BY <2>1, <1>5, <1>0 DEF Started, arena_start
  <2> QED BY <1>5, <1>1, <2>1
<1> QED BY <1>2, <1>3, <1>4, <1>5, StepCases

-------------------------------------------------------------------------------
(* What each step writes to guest memory.                                    *)

\* One word after a write.
LEMMA PutAt ==
    ASSUME NEW S, NEW w, NEW a \in Addr, DOMAIN w = S
    PROVE  Put(w)[a] = IF a \in S THEN w[a] ELSE mem[a]
BY DEF Put

\* A word after write_stub.
LEMMA StubWrite ==
    ASSUME write_stub, NEW a \in Addr
    PROVE  mem'[a] = IF a = StubAddr THEN <<"stub", 0>> ELSE mem[a]
<1> DEFINE w == [x \in {StubAddr} |-> <<"stub", 0>>]
<1>1. mem' = Put(w) /\ DOMAIN w = {StubAddr}
  BY DEF write_stub
<1>2. Put(w)[a] = IF a \in {StubAddr} THEN w[a] ELSE mem[a]
  BY <1>1, PutAt
<1> QED BY <1>1, <1>2

\* A word after clear_segment.
LEMMA ClearWrite ==
    ASSUME Typed, clear_segment, NEW a \in Addr
    PROVE  mem'[a] = IF a \in Range(Seg.vaddr, Seg.memsz) THEN Zero ELSE mem[a]
<1> DEFINE S == Range(Seg.vaddr, Seg.memsz)
           w == [x \in S |-> Zero]
<1>1. mem' = Put(w) /\ DOMAIN w = S
  BY ClearLocals DEF ClearSegment
<1>2. Put(w)[a] = IF a \in S THEN w[a] ELSE mem[a]
  BY <1>1, PutAt
<1> QED BY <1>1, <1>2

\* A word after copy_chunk.
LEMMA ChunkWrite ==
    ASSUME Typed, copy_chunk, NEW a \in Addr
    PROVE  mem'[a] = IF a \in Range(ld.dst, ToRead) /\ ~(ld.dst + ToRead > MemTop)
                     THEN <<"img", ld.cursor + (a - ld.dst)>> ELSE mem[a]
<1> DEFINE S == Range(ld.dst, ToRead)
           w == [x \in S |-> <<"img", ld.cursor + (x - ld.dst)>>]
<1>1. mem' = (IF ld.dst + ToRead > MemTop THEN mem ELSE Put(w)) /\ DOMAIN w = S
  BY DEF copy_chunk
<1>2. Put(w)[a] = IF a \in S THEN w[a] ELSE mem[a]
  BY <1>1, PutAt
<1> QED BY <1>1, <1>2

\* A word after write_chunk.
LEMMA HeaderWrite ==
    ASSUME write_chunk, NEW a \in Addr
    PROVE  mem'[a] = IF a \in Range(ld.load_end, HdrLen) THEN <<"chunk", a - ld.load_end>> ELSE mem[a]
<1> DEFINE S == Range(ld.load_end, HdrLen)
           w == [x \in S |-> <<"chunk", x - ld.load_end>>]
<1>1. mem' = Put(w) /\ DOMAIN w = S
  BY DEF write_chunk, ChunkBase
<1>2. Put(w)[a] = IF a \in S THEN w[a] ELSE mem[a]
  BY <1>1, PutAt
<1> QED BY <1>1, <1>2

\* A word after fill_tls.
LEMMA FillWrite ==
    ASSUME fill_tls, NEW a \in Addr
    PROVE  mem'[a] = IF a \in Range(FakeTls, TlsSize) THEN <<"ptr", StubAddr>> ELSE mem[a]
<1> DEFINE S == Range(FakeTls, TlsSize)
           w == [x \in S |-> <<"ptr", StubAddr>>]
<1>1. mem' = Put(w) /\ DOMAIN w = S
  BY DEF fill_tls
<1>2. Put(w)[a] = IF a \in S THEN w[a] ELSE mem[a]
  BY <1>1, PutAt
<1> QED BY <1>1, <1>2

\* A word after clear_below_tls.
LEMMA BelowWrite ==
    ASSUME clear_below_tls, NEW a \in Addr
    PROVE  mem'[a] = IF a \in Range(FakeTls - TlsSize, TlsSize) THEN Zero ELSE mem[a]
<1> DEFINE S == Range(FakeTls - TlsSize, TlsSize)
           w == [x \in S |-> Zero]
<1>1. mem' = Put(w) /\ DOMAIN w = S
  BY DEF clear_below_tls, BelowTls
<1>2. Put(w)[a] = IF a \in S THEN w[a] ELSE mem[a]
  BY <1>1, PutAt
<1> QED BY <1>1, <1>2

\* A word after write_tcb.
LEMMA TcbWrite ==
    ASSUME Typed, write_tcb, NEW a \in Addr
    PROVE  mem'[a] = IF a - FakeTls \in {0, 1, 2, 5} THEN TcbWords[a - FakeTls] ELSE mem[a]
<1> DEFINE S == {FakeTls + k : k \in DOMAIN TcbWords}
           w == [x \in S |-> TcbWords[x - FakeTls]]
<1>1. mem' = Put(w) /\ DOMAIN w = S
  BY DEF write_tcb
<1>2. Put(w)[a] = IF a \in S THEN w[a] ELSE mem[a]
  BY <1>1, PutAt
<1>3. FakeTls \in Nat /\ a \in Nat
  BY LocalFields, BootSizes DEF FakeTls, ChunkBase, Addr
<1>4. DOMAIN TcbWords = {0, 1, 2, 5}
  BY DEF TcbWords
<1>5. a \in S <=> a - FakeTls \in {0, 1, 2, 5}
  BY <1>3, <1>4
<1> QED BY <1>1, <1>2, <1>5

\* The thread block is written around load_end only.
LEMMA TlsWrites ==
    ASSUME Typed, write_chunk \/ fill_tls \/ clear_below_tls \/ write_tcb, NEW a \in Addr,
           \/ a >= ld.load_end + (TlsSize + HdrLen)
           \/ a < ld.load_end /\ a < (ld.load_end + HdrLen) - TlsSize
    PROVE  mem'[a] = mem[a]
<1> DEFINE e == ld.load_end
<1>0. e \in Nat /\ a \in Nat /\ FakeTls = e + HdrLen
  BY LocalFields DEF Addr, FakeTls, ChunkBase
<1> USE BootSizes
<1> HIDE DEF e
<1>00. a >= e + (TlsSize + HdrLen) \/ (a < e /\ a < (e + HdrLen) - TlsSize)
  BY DEF e
<1>1. CASE write_chunk
  <2>1. a \notin Range(e, HdrLen)
    BY <1>0, <1>00 DEF Range
  <2> QED BY <1>1, <2>1, HeaderWrite DEF e
<1>2. CASE fill_tls
  <2>1. a \notin Range(FakeTls, TlsSize)
    BY <1>0, <1>00 DEF Range
  <2> QED BY <1>2, <2>1, FillWrite
<1>3. CASE clear_below_tls
  <2>1. a \notin Range(FakeTls - TlsSize, TlsSize)
    BY <1>0, <1>00 DEF Range
  <2> QED BY <1>3, <2>1, BelowWrite
<1>4. CASE write_tcb
  <2>1. a - FakeTls \notin {0, 1, 2, 5}
    BY <1>0, <1>00
  <2> QED BY <1>4, <2>1, TcbWrite
<1> QED BY <1>1, <1>2, <1>3, <1>4

\* The stack is written from EspBase up.
LEMMA StackWrite ==
    ASSUME Typed, build_stack, NEW a \in Addr
    PROVE  mem'[a] =
             IF a \in Range(EspBase, Argc + 35) THEN HeaderWord(a - EspBase)
             ELSE IF a \in Range(RandomAddr, RandBytes) THEN <<"rnd", a - RandomAddr>>
             ELSE IF a \in Range(StrBase, RandomAddr - StrBase)
             THEN <<"str", CHOOSE i \in 1 .. Argc : a \in Range(ArgvAddr(i), in.args[i])>>
             ELSE mem[a]
<1>1. header_words(Argc) = Argc + 35
  BY StackPlaced DEF Typed
<1> DEFINE owner(x) == CHOOSE i \in 1 .. Argc : x \in Range(ArgvAddr(i), in.args[i])
           word(x) == IF x \in Range(EspBase, header_words(Argc)) THEN HeaderWord(x - EspBase)
                      ELSE IF x \in Range(RandomAddr, RandBytes) THEN <<"rnd", x - RandomAddr>>
                      ELSE IF x \in Range(StrBase, RandomAddr - StrBase) THEN <<"str", owner(x)>>
                      ELSE mem[x]
<1>2. mem' = [x \in Addr |-> word(x)]
  BY DEF build_stack
<1>3. mem'[a] = word(a)
  <2> HIDE DEF word
  <2> QED BY <1>2
<1>4. mem'[a] =
        IF a \in Range(EspBase, Argc + 35) THEN HeaderWord(a - EspBase)
        ELSE IF a \in Range(RandomAddr, RandBytes) THEN <<"rnd", a - RandomAddr>>
        ELSE IF a \in Range(StrBase, RandomAddr - StrBase) THEN <<"str", owner(a)>>
        ELSE mem[a]
  <2> HIDE DEF owner
  <2> QED BY <1>1, <1>3
<1> QED BY <1>4

\* build_stack writes nothing below the stack pointer.
LEMMA BelowStack ==
    ASSUME Typed, build_stack, NEW a \in Addr, a < EspBase
    PROVE  mem'[a] = mem[a]
<1>1. /\ EspBase \in Nat /\ StrBase \in Nat /\ RandomAddr \in Nat /\ Argc \in Nat
      /\ EspBase <= StrBase /\ StrBase <= RandomAddr
  BY StackPlaced DEF Typed
<1>2. a \in Nat
  BY BootSizes DEF Addr
<1>3. /\ a \notin Range(EspBase, Argc + 35) /\ a \notin Range(RandomAddr, RandBytes)
      /\ a \notin Range(StrBase, RandomAddr - StrBase)
  BY <1>1, <1>2, BootSizes DEF Range
<1> QED BY <1>3, StackWrite

-------------------------------------------------------------------------------
(* The trampoline and the thread block.                                      *)

StubInPlace == pc # "stub" /\ SegsAbove => mem[StubAddr] = <<"stub", 0>>

\* The first words of the thread block, where they lie in guest memory.
TlsWords ==
    /\ pc \in {"clear", "tcb"} =>
         \A k \in 0 .. 5 : FakeTls + k < MemTop => mem[FakeTls + k] = <<"ptr", StubAddr>>
    /\ pc \in {"arena", "run"} =>
         \A k \in 0 .. 5 : FakeTls + k < MemTop =>
            mem[FakeTls + k] = IF k \in {0, 1, 2, 5} THEN TcbWords[k] ELSE <<"ptr", StubAddr>>

\* The trampoline is in guest memory and below the stack.
LEMMA StubInside ==
    ASSUME in \in Inputs PROVE StubAddr \in Addr /\ StubAddr < EspBase
BY StackPlaced, BootSizes DEF Addr

\* No step writes to the trampoline once it is there, if no segment does.
LEMMA StubStep ==
    ASSUME Typed, Copying, EndKnown, StubInPlace, [BootNext]_boot_vars
    PROVE  StubInPlace'
<1> USE BootSizes
<1>0. in' = in /\ SegsAbove' = SegsAbove /\ StubAddr \in Addr /\ StubAddr < EspBase
  BY LocalsStep, SegsAboveFixed, StubInside DEF Typed
<1>1. SUFFICES ASSUME pc' # "stub", SegsAbove
               PROVE  mem'[StubAddr] = <<"stub", 0>>
  BY <1>0 DEF StubInPlace
<1>2. CASE pc # "stub" /\ mem'[StubAddr] = mem[StubAddr]
  BY <1>1, <1>2 DEF StubInPlace
<1>3. CASE write_stub
  BY <1>3, <1>0, StubWrite
<1>4. CASE clear_segment
  <2>1. pc = "phdr" /\ ld.i <= Len(in.phdrs) /\ ~Skipped(Seg)
    BY <1>4, ClearLocals
  <2>2. ld.i \in Segs /\ Seg = in.phdrs[ld.i] /\ Seg.vaddr \in Nat /\ Seg.memsz \in Nat
    BY <2>1, SegFields DEF Segs
  <2>3. Seg.vaddr >= StubAddr + PageSize
    BY <2>2, <1>1 DEF SegsAbove
  <2>4. StubAddr \notin Range(Seg.vaddr, Seg.memsz)
    BY <2>2, <2>3 DEF Range
  <2> QED BY <1>2, <1>4, <1>0, <2>1, <2>4, ClearWrite
<1>5. CASE copy_chunk
  <2>1. pc = "copy" /\ ToRead \in Nat
    BY <1>5, ChunkLocals
  <2>2. /\ ld.i <= Len(in.phdrs) /\ ~Skipped(Seg) /\ ld.remaining <= Seg.filesz
        /\ ld.dst = Seg.vaddr + (Seg.filesz - ld.remaining) /\ ld.remaining \in Nat
    BY <2>1, LocalFields DEF Copying
  <2>3. /\ ld.i \in Segs /\ Seg = in.phdrs[ld.i] /\ Seg.vaddr \in Nat /\ Seg.filesz \in Nat
    BY <2>2, SegFields DEF Segs
  <2>4. Seg.vaddr >= StubAddr + PageSize
    BY <2>3, <1>1 DEF SegsAbove
  <2>5. ld.dst \in Nat /\ ld.dst > StubAddr
    BY <2>2, <2>3, <2>4
  <2>6. StubAddr \notin Range(ld.dst, ToRead)
    BY <2>1, <2>5 DEF Range
  <2> QED BY <1>2, <1>5, <1>0, <2>1, <2>6, ChunkWrite
<1>6. CASE build_stack
  <2>1. pc = "stack"
    BY <1>6 DEF build_stack
  <2> QED BY <2>1, <1>2, <1>6, <1>0, BelowStack
<1>7. CASE write_chunk \/ fill_tls \/ clear_below_tls \/ write_tcb
  <2>1. pc # "stub"
    BY <1>7 DEF write_chunk, fill_tls, clear_below_tls, write_tcb
  <2>2. ld.load_end \in Nat /\ (ld.load_end = 0 \/ ld.load_end > StubAddr + PageSize)
    BY <1>1, LocalFields DEF EndKnown
  <2>3. \/ StubAddr >= ld.load_end + (TlsSize + HdrLen)
        \/ StubAddr < ld.load_end /\ StubAddr < (ld.load_end + HdrLen) - TlsSize
    BY <2>2
  <2>4. mem'[StubAddr] = mem[StubAddr]
    BY <1>7, <1>0, <2>3, TlsWrites
  <2> QED BY <2>1, <2>4, <1>2
<1>8. CASE place_arena
  BY <1>8, <1>2 DEF place_arena
<1>9. CASE skip_phdr \/ end_segment \/ end_load
  BY <1>9, <1>2, SkipLocals, EndSegmentLocals, EndLoadLocals
<1>10. CASE UNCHANGED <<in, mem, ld, eip, esp, g_brk, gs_base, g_mmap_ptr>>
            /\ ((pc # "stub" /\ pc' = "failed") \/ pc' = pc \/ (pc = "ehdr" /\ pc' = "phdr"))
  BY <1>10, <1>1, <1>2
<1> QED BY <1>3, <1>4, <1>5, <1>6, <1>7, <1>8, <1>9, <1>10, StepCases DEF Later

\* The words clear_below_tls clears are not those of the block.
LEMMA TlsStep ==
    ASSUME Typed, Copying, TlsWords, [BootNext]_boot_vars
    PROVE  TlsWords'
<1> USE BootSizes
<1>1. CASE pc' \notin {"clear", "tcb", "arena", "run"}
  BY <1>1 DEF TlsWords
<1>2. CASE pc' = pc /\ UNCHANGED <<mem, ld>>
  BY <1>2 DEF TlsWords, FakeTls, ChunkBase, TcbWords
<1>3. ASSUME ld' = ld
      PROVE  FakeTls' = FakeTls /\ TcbWords' = TcbWords
  BY <1>3 DEF FakeTls, ChunkBase, TcbWords
<1>4. FakeTls \in Nat /\ \A k \in 0 .. 5 : FakeTls + k < MemTop => FakeTls + k \in Addr
  <2>1. FakeTls \in Nat
    BY LocalFields DEF FakeTls, ChunkBase
  <2> QED BY <2>1 DEF Addr
<1>5. CASE fill_tls
  <2>1. pc' = "clear" /\ ld' = ld
    BY <1>5 DEF fill_tls
  <2>2. \A k \in 0 .. 5 : FakeTls + k \in Range(FakeTls, TlsSize)
    BY <1>4 DEF Range
  <2>3. \A k \in 0 .. 5 : FakeTls + k < MemTop => mem'[FakeTls + k] = <<"ptr", StubAddr>>
    BY <1>4, <1>5, <2>2, FillWrite
  <2> QED BY <1>3, <2>1, <2>3 DEF TlsWords
<1>6. CASE clear_below_tls
  <2>1. pc = "clear" /\ pc' = "tcb" /\ ld' = ld
    BY <1>6 DEF clear_below_tls
  <2>2. \A k \in 0 .. 5 : FakeTls + k \notin Range(FakeTls - TlsSize, TlsSize)
    BY <1>4 DEF Range
  <2>3. \A k \in 0 .. 5 : FakeTls + k < MemTop => mem'[FakeTls + k] = mem[FakeTls + k]
    BY <1>4, <1>6, <2>2, BelowWrite
  <2> QED BY <1>3, <2>1, <2>3 DEF TlsWords
<1>7. CASE write_tcb
  <2>1. pc = "tcb" /\ pc' = "arena" /\ ld' = ld
    BY <1>7 DEF write_tcb
  <2>2. \A k \in 0 .. 5 : (FakeTls + k) - FakeTls = k
    BY <1>4
  <2>3. \A k \in 0 .. 5 : FakeTls + k < MemTop =>
           mem'[FakeTls + k] = IF k \in {0, 1, 2, 5} THEN TcbWords[k] ELSE mem[FakeTls + k]
    BY <1>4, <1>7, <2>2, TcbWrite
  <2>4. \A k \in 0 .. 5 : FakeTls + k < MemTop => mem[FakeTls + k] = <<"ptr", StubAddr>>
    BY <2>1 DEF TlsWords
  <2>5. \A k \in 0 .. 5 : FakeTls + k < MemTop =>
           mem'[FakeTls + k] = IF k \in {0, 1, 2, 5} THEN TcbWords[k] ELSE <<"ptr", StubAddr>>
    BY <2>3, <2>4
  <2> QED BY <1>3, <2>1, <2>5, Zenon DEF TlsWords
<1>8. CASE place_arena
  <2>1. pc = "arena" /\ pc' = "run" /\ ld' = ld /\ mem' = mem
    BY <1>8 DEF place_arena
  <2> QED BY <1>3, <2>1, Zenon DEF TlsWords
<1>9. CASE build_stack \/ write_chunk \/ write_stub
  BY <1>9, <1>1 DEF build_stack, write_chunk, write_stub
<1>10. CASE skip_phdr \/ clear_segment \/ copy_chunk \/ end_segment \/ end_load
  BY <1>10, <1>1, SkipLocals, ClearLocals, ChunkLocals, EndSegmentLocals, EndLoadLocals
<1>11. CASE UNCHANGED <<in, mem, ld, eip, esp, g_brk, gs_base, g_mmap_ptr>>
            /\ ((pc # "stub" /\ pc' = "failed") \/ pc' = pc \/ (pc = "ehdr" /\ pc' = "phdr"))
  BY <1>11, <1>1, <1>2
<1> QED BY <1>5, <1>6, <1>7, <1>8, <1>9, <1>10, <1>11, StepCases DEF Later

-------------------------------------------------------------------------------
(* The stack.                                                                *)

\* The argument strings lie one behind the other below the random words.
LEMMA ArgvPlaced ==
    ASSUME in \in Inputs, NEW i \in 1 .. Argc
    PROVE  /\ ArgvAddr(i) \in Nat /\ in.args[i] \in Nat
           /\ StrBase <= ArgvAddr(i) /\ ArgvAddr(i) + in.args[i] <= RandomAddr
           /\ \A j \in 1 .. Argc : i < j => ArgvAddr(i) + in.args[i] <= ArgvAddr(j)
<1> DEFINE lens == in.args
           s(k) == StringsBefore(lens, k)
           n == Argc
<1>1. /\ lens \in Seq(Nat \ {0}) /\ n \in 0 .. Len(lens) /\ StrBase \in Nat
      /\ RandomAddr = StrBase + s(n)
  BY StackPlaced
<1>2. \A k : ArgvAddr(k) = StrBase + s(k - 1)
  BY DEF ArgvAddr
<1>3. i \in 1 .. n /\ Len(lens) \in Nat
  BY <1>1
<1> HIDE DEF lens, n
<1>4. \A k \in 0 .. Len(lens) : s(k) \in Nat /\ \A j \in 1 .. k : s(j - 1) + lens[j] <= s(k)
  BY <1>1, StringsOrdered, Zenon
<1> HIDE DEF s
<1>5. i - 1 \in 0 .. Len(lens) /\ i \in 1 .. Len(lens) /\ n \in 0 .. Len(lens)
  BY <1>1, <1>3
<1>6. s(i - 1) \in Nat /\ s(n) \in Nat /\ s(i - 1) + lens[i] <= s(n) /\ lens[i] \in Nat
  <2>1. lens[i] \in Nat
    BY <1>1, <1>5
  <2> QED BY <2>1, <1>3, <1>4, <1>5
<1>7. ASSUME NEW j \in 1 .. n, i < j PROVE s(i - 1) + lens[i] <= s(j - 1) /\ s(j - 1) \in Nat
  <2>1. j - 1 \in 0 .. Len(lens) /\ i \in 1 .. j - 1
    BY <1>1, <1>3, <1>7
  <2> QED BY <2>1, <1>4
<1>8. \A j \in 1 .. n : i < j => (StrBase + s(i - 1)) + lens[i] <= StrBase + s(j - 1)
  BY <1>1, <1>6, <1>7
<1>9. /\ StrBase + s(i - 1) \in Nat /\ StrBase <= StrBase + s(i - 1)
      /\ (StrBase + s(i - 1)) + lens[i] <= RandomAddr
  BY <1>1, <1>6
<1>10. ArgvAddr(i) = StrBase + s(i - 1) /\ \A j \in 1 .. n : ArgvAddr(j) = StrBase + s(j - 1)
  BY <1>2, Zenon
<1>11. \A j \in 1 .. n : i < j => ArgvAddr(i) + lens[i] <= ArgvAddr(j)
  BY <1>8, <1>10
<1>12. ArgvAddr(i) \in Nat /\ StrBase <= ArgvAddr(i) /\ ArgvAddr(i) + lens[i] <= RandomAddr
  BY <1>9, <1>10
<1> QED BY <1>6, <1>11, <1>12 DEF lens, n

\* A word of a string belongs to that string only.
LEMMA Owner ==
    ASSUME in \in Inputs, NEW i \in 1 .. Argc, NEW a \in Range(ArgvAddr(i), in.args[i])
    PROVE  (CHOOSE j \in 1 .. Argc : a \in Range(ArgvAddr(j), in.args[j])) = i
<1>1. ASSUME NEW j \in 1 .. Argc, a \in Range(ArgvAddr(j), in.args[j]) PROVE j = i
  <2>1. /\ ArgvAddr(i) \in Nat /\ in.args[i] \in Nat
        /\ i < j => ArgvAddr(i) + in.args[i] <= ArgvAddr(j)
    BY ArgvPlaced
  <2>2. /\ ArgvAddr(j) \in Nat /\ in.args[j] \in Nat
        /\ j < i => ArgvAddr(j) + in.args[j] <= ArgvAddr(i)
    BY ArgvPlaced
  <2>3. i \in Int /\ j \in Int
    BY StackPlaced
  <2>4. /\ ArgvAddr(i) <= a /\ a < ArgvAddr(i) + in.args[i]
        /\ ArgvAddr(j) <= a /\ a < ArgvAddr(j) + in.args[j] /\ a \in Int
    BY <1>1, <2>1, <2>2 DEF Range
  <2>5. ~(i < j) /\ ~(j < i)
    BY <2>1, <2>2, <2>4
  <2> QED BY <2>3, <2>5
<1> QED BY <1>1

\* What stands on the stack, until something is written over it.
StackWords ==
    pc \in {"chunk", "fill", "clear", "tcb", "arena", "run"} =>
      \A a \in Addr : pc = "chunk" \/ a >= ld.load_end + (TlsSize + HdrLen) =>
        /\ a \in Range(EspBase, Argc + 35) => mem[a] = HeaderWord(a - EspBase)
        /\ a \in Range(RandomAddr, RandBytes) => mem[a] = <<"rnd", a - RandomAddr>>
        /\ \A i \in 1 .. Argc : a \in Range(ArgvAddr(i), in.args[i]) => mem[a] = <<"str", i>>

\* The block depends on the input and the locals alone.
LEMMA HeaderFixed ==
    ASSUME in' = in, ld' = ld, NEW k
    PROVE  HeaderWord(k)' = HeaderWord(k)
<1>1. Argc' = Argc /\ RandomAddr' = RandomAddr /\ \A i : ArgvAddr(i)' = ArgvAddr(i)
  BY StackFixed
<1>2. Auxv' = Auxv
  BY <1>1 DEF Auxv, AtPhdr
<1>3. \A j : AuxWord(j)' = AuxWord(j)
  BY <1>2 DEF AuxWord
<1> QED BY <1>1, <1>3 DEF HeaderWord

\* The steps after build_stack write below the break only.
LEMMA StackStep ==
    ASSUME Typed, Copying, StackWords, [BootNext]_boot_vars
    PROVE  StackWords'
<1>0. in' = in
  BY LocalsStep
<1>00. /\ Argc' = Argc /\ EspBase' = EspBase /\ StrBase' = StrBase /\ RandomAddr' = RandomAddr
       /\ \A i : ArgvAddr(i)' = ArgvAddr(i)
  BY <1>0, StackFixed
<1>1. CASE pc' \notin {"chunk", "fill", "clear", "tcb", "arena", "run"}
  BY <1>1 DEF StackWords
<1>2. ASSUME ld' = ld, pc \in {"chunk", "fill", "clear", "tcb", "arena", "run"},
             pc' = "chunk" => pc = "chunk",
             \A a \in Addr : pc' = "chunk" \/ a >= ld.load_end + (TlsSize + HdrLen) => mem'[a] = mem[a]
      PROVE  StackWords'
  <2>1. \A k : HeaderWord(k)' = HeaderWord(k)
    BY <1>0, <1>2, HeaderFixed
  <2>2. SUFFICES ASSUME NEW a \in Addr, pc' = "chunk" \/ a >= ld.load_end + (TlsSize + HdrLen)
        PROVE  /\ a \in Range(EspBase, Argc + 35) => mem'[a] = HeaderWord(a - EspBase)
               /\ a \in Range(RandomAddr, RandBytes) => mem'[a] = <<"rnd", a - RandomAddr>>
               /\ \A i \in 1 .. Argc : a \in Range(ArgvAddr(i), in.args[i]) => mem'[a] = <<"str", i>>
    BY <1>0, <1>00, <1>2, <2>1, Zenon DEF StackWords, Addr, Range
  <2>3. mem'[a] = mem[a] /\ (pc = "chunk" \/ a >= ld.load_end + (TlsSize + HdrLen))
    BY <1>2, <2>2
  <2> QED BY <1>2, <2>3, Zenon DEF StackWords
<1>3. CASE build_stack
  <2>1. pc' = "chunk" /\ ld' = ld
    BY <1>3 DEF build_stack
  <2>2. \A k : HeaderWord(k)' = HeaderWord(k)
    BY <1>0, <2>1, HeaderFixed
  <2>3. SUFFICES ASSUME NEW a \in Addr
        PROVE  /\ a \in Range(EspBase, Argc + 35) => mem'[a] = HeaderWord(a - EspBase)
               /\ a \in Range(RandomAddr, RandBytes) => mem'[a] = <<"rnd", a - RandomAddr>>
               /\ \A i \in 1 .. Argc : a \in Range(ArgvAddr(i), in.args[i]) => mem'[a] = <<"str", i>>
    BY <1>0, <1>00, <2>1, <2>2, Zenon DEF StackWords, Addr, Range
  <2>4. a \in Nat /\ in \in Inputs
    BY BootSizes DEF Addr, Typed
  <2>5. /\ EspBase \in Nat /\ StrBase \in Nat /\ RandomAddr \in Nat /\ Argc \in Nat
        /\ EspBase + (Argc + 35) <= StrBase /\ StrBase <= RandomAddr /\ RandBytes \in Nat
    BY <2>4, StackPlaced, BootSizes
  <2>6. a \in Range(EspBase, Argc + 35) => mem'[a] = HeaderWord(a - EspBase)
    BY <1>3, StackWrite
  <2>7. ASSUME a \in Range(RandomAddr, RandBytes) PROVE mem'[a] = <<"rnd", a - RandomAddr>>
    <3>1. a \notin Range(EspBase, Argc + 35)
      BY <2>4, <2>5, <2>7 DEF Range
    <3> QED BY <1>3, <2>7, <3>1, StackWrite
  <2>8. ASSUME NEW i \in 1 .. Argc, a \in Range(ArgvAddr(i), in.args[i]) PROVE mem'[a] = <<"str", i>>
    <3>1. /\ ArgvAddr(i) \in Nat /\ in.args[i] \in Nat
          /\ StrBase <= ArgvAddr(i) /\ ArgvAddr(i) + in.args[i] <= RandomAddr
      BY <2>4, ArgvPlaced
    <3>2. /\ a \notin Range(EspBase, Argc + 35) /\ a \notin Range(RandomAddr, RandBytes)
          /\ a \in Range(StrBase, RandomAddr - StrBase)
      BY <2>4, <2>5, <2>8, <3>1 DEF Range
    <3>3. mem'[a] = <<"str", CHOOSE j \in 1 .. Argc : a \in Range(ArgvAddr(j), in.args[j])>>
      BY <1>3, <3>2, StackWrite, Zenon
    <3>4. (CHOOSE j \in 1 .. Argc : a \in Range(ArgvAddr(j), in.args[j])) = i
      BY <2>4, <2>8, Owner, Zenon
    <3> QED BY <3>3, <3>4, Zenon
  <2> QED BY <2>6, <2>7, <2>8
<1>4. CASE write_chunk \/ fill_tls \/ clear_below_tls \/ write_tcb
  <2>1. ld' = ld /\ pc \in {"chunk", "fill", "clear", "tcb"} /\ pc' # "chunk"
    BY <1>4 DEF write_chunk, fill_tls, clear_below_tls, write_tcb
  <2>2. \A a \in Addr : a >= ld.load_end + (TlsSize + HdrLen) => mem'[a] = mem[a]
    BY <1>4, TlsWrites
  <2> QED BY <2>1, <2>2, <1>2
<1>5. CASE place_arena
  BY <1>5, <1>2 DEF place_arena
<1>6. CASE skip_phdr \/ clear_segment \/ copy_chunk \/ end_segment \/ end_load \/ write_stub
  BY <1>6, <1>1, SkipLocals, ClearLocals, ChunkLocals, EndSegmentLocals, EndLoadLocals
     DEF write_stub
<1>7. CASE UNCHANGED <<in, mem, ld, eip, esp, g_brk, gs_base, g_mmap_ptr>>
            /\ ((pc # "stub" /\ pc' = "failed") \/ pc' = pc \/ (pc = "ehdr" /\ pc' = "phdr"))
  BY <1>7, <1>1, <1>2
<1> QED BY <1>3, <1>4, <1>5, <1>6, <1>7, StepCases DEF Later

-------------------------------------------------------------------------------
(* The image of the program.                                                 *)

\* Segment j as the memory w holds it when the headers below hi have been
\* loaded.
Placed(w, j, hi) ==
    \A k \in 0 .. in.phdrs[j].memsz - 1 :
       \/ \E l \in Segs : l > j /\ l < hi /\ Covers(in.phdrs[l], in.phdrs[j].vaddr + k)
       \/ w[in.phdrs[j].vaddr + k] = LoadedWord(in.phdrs[j], k)

\* The segment being copied: its contents up to dst, zeros from there on.
PartCopied(w, dst) ==
    \A k \in 0 .. Seg.memsz - 1 :
       w[Seg.vaddr + k] = IF Seg.vaddr + k < dst THEN <<"img", Seg.off + k>> ELSE Zero

ImageSoFar ==
    /\ \A j \in Segs : j < ld.i => ~TooBig(in.phdrs[j])
    /\ pc \in {"phdr", "stack"} =>
         \A j \in Segs : j < ld.i => PastEnd(in.phdrs[j]) \/ Placed(mem, j, ld.i)
    /\ pc = "copy" =>
         /\ \A j \in Segs : j < ld.i => PastEnd(in.phdrs[j]) \/ Placed(mem, j, ld.i + 1)
         /\ PastEnd(Seg) \/ PartCopied(mem, ld.dst)

\* Every segment is a header with numbers in it.
LEMMA SegNumbers ==
    ASSUME in \in Inputs, NEW j \in Segs
    PROVE  /\ j \in 1 .. Len(in.phdrs) /\ j \in Nat
           /\ in.phdrs[j].vaddr \in Nat /\ in.phdrs[j].off \in Nat
           /\ in.phdrs[j].filesz \in Nat /\ in.phdrs[j].memsz \in Nat
<1>1. j \in 1 .. Len(in.phdrs) /\ Len(in.phdrs) \in Nat
  BY PhdrTyped DEF Segs
<1> QED BY <1>1, PhdrTyped

\* Writes that stay within later segments leave a segment in place.
LEMMA PlacedKept ==
    ASSUME in \in Inputs, NEW j \in Segs, ~TooBig(in.phdrs[j]), NEW m \in Nat, NEW n \in Nat, m <= n,
           NEW w, NEW v, Placed(w, j, m),
           \A a \in Addr : \/ v[a] = w[a]
                           \/ \E l \in Segs : l > j /\ l < n /\ Covers(in.phdrs[l], a)
    PROVE  Placed(v, j, n)
<1> SUFFICES ASSUME NEW k \in 0 .. in.phdrs[j].memsz - 1
             PROVE  \/ \E l \in Segs : l > j /\ l < n /\ Covers(in.phdrs[l], in.phdrs[j].vaddr + k)
                    \/ v[in.phdrs[j].vaddr + k] = LoadedWord(in.phdrs[j], k)
  BY DEF Placed
<1> DEFINE a == in.phdrs[j].vaddr + k
<1>1. in.phdrs[j].vaddr \in Nat /\ in.phdrs[j].memsz \in Nat
  BY SegNumbers
<1>2. a \in Addr
  BY <1>1, BootSizes DEF Addr, TooBig
<1> HIDE DEF a
<1>3. \/ \E l \in Segs : l > j /\ l < m /\ Covers(in.phdrs[l], a)
      \/ w[a] = LoadedWord(in.phdrs[j], k)
  BY DEF Placed, a
<1>4. \A l \in Segs : l < m => l < n
  BY SegNumbers
<1>5. \/ \E l \in Segs : l > j /\ l < n /\ Covers(in.phdrs[l], a)
      \/ v[a] = LoadedWord(in.phdrs[j], k)
  BY <1>2, <1>3, <1>4
<1> QED BY <1>5 DEF a

\* Only the locals and the memory matter to it.
LEMMA PlacedFixed ==
    ASSUME in' = in
    PROVE  /\ Segs' = Segs
           /\ \A p : TooBig(p)' = TooBig(p) /\ PastEnd(p)' = PastEnd(p)
           /\ \A j : Placed(mem, j, ld.i)' = Placed(mem', j, ld'.i)
           /\ \A j : Placed(mem, j, ld.i + 1)' = Placed(mem', j, ld'.i + 1)
BY DEF Placed, Segs, Skipped, TooBig, PastEnd, Covers, LoadedWord, Range, Zero

\* What was copied of a segment, in the next state.
LEMMA CopiedFixed ==
    ASSUME Seg' = Seg
    PROVE  PartCopied(mem, ld.dst)' = PartCopied(mem', ld'.dst) /\ PastEnd(Seg)' = PastEnd(Seg)
BY DEF PartCopied, PastEnd, Zero

\* A word of a segment that fits in guest memory.
LEMMA InSegment ==
    ASSUME NEW p, p.vaddr \in Nat, p.memsz \in Nat, ~TooBig(p), NEW k \in 0 .. p.memsz - 1
    PROVE  /\ k \in Nat /\ p.vaddr + k \in Addr /\ p.vaddr + k \in Range(p.vaddr, p.memsz)
           /\ ~(p.vaddr + k < p.vaddr)
<1> DEFINE v == p.vaddr
           n == p.memsz
<1>1. v \in Nat /\ n \in Nat /\ k \in 0 .. n - 1 /\ v + n <= MemTop /\ MemTop \in Nat
  BY BootSizes DEF TooBig
<1> HIDE DEF v, n
<1>2. k \in Nat /\ v + k \in 0 .. MemTop - 1 /\ v + k \in v .. v + n - 1 /\ ~(v + k < v)
  BY <1>1
<1> QED BY <1>2 DEF v, n, Addr, Range

\* The invariant in the next state, spelt out.
LEMMA ImagePrimed ==
    ASSUME in' = in,
           \A j \in Segs : j < ld'.i => ~TooBig(in.phdrs[j]),
           pc' \in {"phdr", "stack"} =>
             \A j \in Segs : j < ld'.i => PastEnd(in.phdrs[j]) \/ Placed(mem', j, ld'.i),
           pc' # "copy"
    PROVE  ImageSoFar'
<1>1. /\ Segs' = Segs
      /\ \A p : TooBig(p)' = TooBig(p) /\ PastEnd(p)' = PastEnd(p)
      /\ \A j : Placed(mem, j, ld.i)' = Placed(mem', j, ld'.i)
  BY PlacedFixed
<1> QED BY <1>1 DEF ImageSoFar, TooBig, PastEnd

\* The same while a segment is copied.
LEMMA CopyPrimed ==
    ASSUME in' = in, ld'.i = ld.i,
           \A j \in Segs : j < ld.i => ~TooBig(in.phdrs[j]),
           \A j \in Segs : j < ld.i => PastEnd(in.phdrs[j]) \/ Placed(mem', j, ld.i + 1),
           PastEnd(Seg) \/ PartCopied(mem', ld'.dst),
           pc' = "copy"
    PROVE  ImageSoFar'
<1>1. /\ Segs' = Segs
      /\ \A j : Placed(mem, j, ld.i + 1)' = Placed(mem', j, ld'.i + 1)
  BY PlacedFixed
<1>2. Seg' = Seg
  BY SegFixed
<1>3. PartCopied(mem, ld.dst)' = PartCopied(mem', ld'.dst) /\ PastEnd(Seg)' = PastEnd(Seg)
  BY <1>2, CopiedFixed
<1> QED BY <1>1, <1>2, <1>3 DEF ImageSoFar, TooBig, PastEnd

\* Each round of the loader puts one more segment in place.
LEMMA ImageStep ==
    ASSUME Typed, Copying, ImageSoFar, [BootNext]_boot_vars
    PROVE  ImageSoFar'
<1>0. in' = in /\ in \in Inputs /\ ld.i \in Nat /\ ld.i >= 1 /\ MemTop \in Nat
  BY LocalsStep, LocalFields, BootSizes
<1>1. \A j \in Segs : j \in Nat /\ (j < ld.i => ~TooBig(in.phdrs[j]))
  BY <1>0, SegNumbers DEF ImageSoFar
<1>3. CASE skip_phdr
  <2>1. /\ pc = "phdr" /\ pc' = "phdr" /\ mem' = mem /\ ld'.i = ld.i + 1 /\ Skipped(Seg)
    BY <1>3, SkipLocals
  <2>2. \A j \in Segs : j < ld.i + 1 => j < ld.i
    <3>1. ld.i \notin Segs
      BY <2>1 DEF Segs, Seg
    <3> QED BY <3>1, <1>0, <1>1
  <2>3. \A j \in Segs : j < ld.i => PastEnd(in.phdrs[j]) \/ Placed(mem, j, ld.i)
    BY <2>1 DEF ImageSoFar
  <2>4. ASSUME NEW j \in Segs, j < ld.i, Placed(mem, j, ld.i) PROVE Placed(mem, j, ld.i + 1)
    <3>1. ld.i + 1 \in Nat /\ ld.i <= ld.i + 1 /\ ~TooBig(in.phdrs[j])
      BY <1>0, <1>1, <2>4
    <3> QED BY <2>4, <3>1, <1>0, PlacedKept
  <2>5. \A j \in Segs : j < ld'.i => PastEnd(in.phdrs[j]) \/ Placed(mem', j, ld'.i)
    BY <2>1, <2>2, <2>3, <2>4
  <2>6. \A j \in Segs : j < ld'.i => ~TooBig(in.phdrs[j])
    BY <2>1, <2>2, <1>1
  <2> QED BY <1>0, <2>1, <2>5, <2>6, ImagePrimed
<1>4. CASE clear_segment
  <2>1. /\ pc = "phdr" /\ pc' = "copy" /\ ld'.i = ld.i /\ ld.i <= Len(in.phdrs) /\ ~Skipped(Seg)
        /\ ~TooBig(Seg) /\ ld'.dst = Seg.vaddr
    BY <1>4, ClearLocals
  <2>2. /\ ld.i \in Segs /\ Seg = in.phdrs[ld.i] /\ Seg.vaddr \in Nat /\ Seg.memsz \in Nat
        /\ Seg.filesz \in Nat
    BY <2>1, SegFields DEF Segs
  <2>3. ASSUME NEW a \in Addr PROVE mem'[a] = mem[a] \/ Covers(in.phdrs[ld.i], a)
    <3>1. a \in Range(Seg.vaddr, Seg.memsz) => Covers(Seg, a)
      BY <2>2 DEF Covers, Range
    <3> QED BY <3>1, <2>2, <1>4, ClearWrite
  <2>4. ASSUME NEW j \in Segs, j < ld.i, Placed(mem, j, ld.i) PROVE Placed(mem', j, ld.i + 1)
    <3>1. ld.i + 1 \in Nat /\ ld.i <= ld.i + 1 /\ ~TooBig(in.phdrs[j]) /\ ld.i < ld.i + 1
      BY <1>0, <1>1, <2>4
    <3>2. \A a \in Addr : \/ mem'[a] = mem[a]
                          \/ \E l \in Segs : l > j /\ l < ld.i + 1 /\ Covers(in.phdrs[l], a)
      BY <2>2, <2>3, <2>4, <3>1, <1>0, <1>1
    <3> QED BY <2>4, <3>1, <3>2, <1>0, PlacedKept
  <2>5. \A j \in Segs : j < ld.i => PastEnd(in.phdrs[j]) \/ Placed(mem', j, ld.i + 1)
    BY <2>1, <2>4 DEF ImageSoFar
  <2>6. PartCopied(mem', Seg.vaddr)
    <3> SUFFICES ASSUME NEW k \in 0 .. Seg.memsz - 1
                 PROVE  mem'[Seg.vaddr + k] = Zero /\ ~(Seg.vaddr + k < Seg.vaddr)
      BY DEF PartCopied
    <3>1. /\ Seg.vaddr + k \in Addr /\ Seg.vaddr + k \in Range(Seg.vaddr, Seg.memsz)
          /\ ~(Seg.vaddr + k < Seg.vaddr)
      BY <2>1, <2>2, <1>0, InSegment
    <3> QED BY <3>1, <1>4, ClearWrite
  <2> QED BY <1>0, <1>1, <2>1, <2>5, <2>6, CopyPrimed
<1>5. CASE copy_chunk
  <2> DEFINE p == Seg
             r == ld.remaining
             n == ToRead
             d == p.filesz - r
  <2>1. /\ pc = "copy" /\ pc' = "copy" /\ ld'.i = ld.i /\ ld'.dst = ld.dst + n
        /\ n \in Nat /\ n <= r
    BY <1>5, ChunkLocals
  <2>2. /\ ld.i <= Len(in.phdrs) /\ ~Skipped(p) /\ ~TooBig(p) /\ r <= p.filesz
        /\ ld.dst = p.vaddr + d /\ ld.cursor = p.off + d /\ r \in Nat
    BY <2>1, LocalFields DEF Copying
  <2>3. /\ ld.i \in Segs /\ p = in.phdrs[ld.i] /\ p.vaddr \in Nat /\ p.memsz \in Nat
        /\ p.filesz \in Nat /\ p.off \in Nat
    BY <2>2, SegFields DEF Segs
  <2>4. d \in Nat /\ d + n <= p.filesz
    BY <2>1, <2>2, <2>3
  <2> HIDE DEF d, p, r, n
  <2> DEFINE v == p.vaddr
             f == p.filesz
             m == p.memsz
             o == p.off
  <2>40. /\ v \in Nat /\ f \in Nat /\ m \in Nat /\ o \in Nat /\ d \in Nat /\ n \in Nat
         /\ d + n <= f /\ ld.dst = v + d /\ ld.cursor = o + d
    BY <2>1, <2>2, <2>3, <2>4
  <2> HIDE DEF v, f, m, o
  <2>41. /\ \A a \in Range(v + d, n) : a \in Range(v, IF f > m THEN f ELSE m)
         /\ (v + d) + n <= v + f
         /\ \A k \in Nat :
              /\ (o + d) + ((v + k) - (v + d)) = o + k
              /\ v + k \in Range(v + d, n) => v + k < (v + d) + n
              /\ v + k \notin Range(v + d, n) => (v + k < (v + d) + n <=> v + k < v + d)
    <3>1. v \in Nat /\ f \in Nat /\ m \in Nat /\ o \in Nat /\ d \in Nat /\ n \in Nat /\ d + n <= f
      BY <2>40
    <3>2. \A a \in Range(v + d, n) : a \in Range(v, IF f > m THEN f ELSE m)
      BY <3>1 DEF Range
    <3>3. (v + d) + n <= v + f
      BY <3>1
    <3>4. ASSUME NEW k \in Nat
          PROVE  /\ (o + d) + ((v + k) - (v + d)) = o + k
                 /\ v + k \in Range(v + d, n) => v + k < (v + d) + n
                 /\ v + k \notin Range(v + d, n) => (v + k < (v + d) + n <=> v + k < v + d)
      BY <3>1 DEF Range
    <3> QED BY <3>2, <3>3, <3>4
  <2>42. /\ \A a \in Range(ld.dst, n) : Covers(p, a)
         /\ ld.dst + n <= p.vaddr + p.filesz /\ ld.dst + n \in Nat /\ p.vaddr + p.filesz \in Nat
         /\ \A k \in Nat :
              /\ ld.cursor + ((p.vaddr + k) - ld.dst) = p.off + k
              /\ p.vaddr + k \in Range(ld.dst, n) => p.vaddr + k < ld.dst + n
              /\ p.vaddr + k \notin Range(ld.dst, n) =>
                   (p.vaddr + k < ld.dst + n <=> p.vaddr + k < ld.dst)
    <3>1. (v + d) + n \in Nat /\ v + f \in Nat
      BY <2>40
    <3> QED BY <2>40, <2>41, <3>1, Zenon DEF v, f, m, o, Covers
  <2>5. ASSUME NEW a \in Addr PROVE mem'[a] = mem[a] \/ Covers(in.phdrs[ld.i], a)
    <3>1. a \in Range(ld.dst, n) => Covers(p, a)
      BY <2>42
    <3> QED BY <3>1, <2>3, <1>5, ChunkWrite DEF n
  <2>6. ASSUME NEW j \in Segs, j < ld.i, Placed(mem, j, ld.i + 1) PROVE Placed(mem', j, ld.i + 1)
    <3>1. ld.i + 1 \in Nat /\ ~TooBig(in.phdrs[j]) /\ ld.i < ld.i + 1
      BY <1>0, <1>1, <2>6
    <3>2. \A a \in Addr : \/ mem'[a] = mem[a]
                          \/ \E l \in Segs : l > j /\ l < ld.i + 1 /\ Covers(in.phdrs[l], a)
      BY <2>3, <2>5, <2>6, <3>1, <1>0, <1>1
    <3> QED BY <2>6, <3>1, <3>2, <1>0, PlacedKept
  <2>7. \A j \in Segs : j < ld.i => PastEnd(in.phdrs[j]) \/ Placed(mem', j, ld.i + 1)
    BY <2>1, <2>6 DEF ImageSoFar
  <2>8. ASSUME ~PastEnd(p) PROVE PartCopied(mem', ld'.dst)
    <3> SUFFICES ASSUME NEW k \in 0 .. p.memsz - 1
                 PROVE  mem'[p.vaddr + k] = IF p.vaddr + k < ld'.dst THEN <<"img", p.off + k>> ELSE Zero
      BY DEF PartCopied, p
    <3>1. k \in Nat /\ p.vaddr + k \in Addr
      BY <2>2, <2>3, InSegment
    <3>2. ~(ld.dst + n > MemTop)
      <4>1. ld.dst + n <= p.vaddr + p.filesz /\ ld.dst + n \in Nat /\ p.vaddr + p.filesz \in Nat
        BY <2>42
      <4>2. ~(p.vaddr + p.filesz > MemTop)
        BY <2>8 DEF PastEnd
      <4> QED BY <4>1, <4>2, <1>0
    <3>3. mem[p.vaddr + k] = IF p.vaddr + k < ld.dst THEN <<"img", p.off + k>> ELSE Zero
      BY <2>1, <2>8 DEF ImageSoFar, PartCopied, p
    <3>4. mem'[p.vaddr + k] = IF p.vaddr + k \in Range(ld.dst, n)
                              THEN <<"img", ld.cursor + ((p.vaddr + k) - ld.dst)>>
                              ELSE mem[p.vaddr + k]
      BY <3>1, <3>2, <1>5, ChunkWrite DEF n
    <3>5. /\ ld.cursor + ((p.vaddr + k) - ld.dst) = p.off + k
          /\ p.vaddr + k \in Range(ld.dst, n) => p.vaddr + k < ld.dst + n
          /\ p.vaddr + k \notin Range(ld.dst, n) =>
               (p.vaddr + k < ld.dst + n <=> p.vaddr + k < ld.dst)
      BY <2>42, <3>1
    <3>6. CASE p.vaddr + k \in Range(ld.dst, n)
      <4>1. p.vaddr + k < ld.dst + n
        BY <3>5, <3>6
      <4> QED BY <4>1, <3>4, <3>5, <3>6, <2>1
    <3>7. CASE p.vaddr + k \notin Range(ld.dst, n)
      <4>1. p.vaddr + k < ld.dst + n <=> p.vaddr + k < ld.dst
        BY <3>5, <3>7
      <4> QED BY <4>1, <3>3, <3>4, <3>7, <2>1
    <3> QED BY <3>6, <3>7
  <2>9. PastEnd(Seg) \/ PartCopied(mem', ld'.dst)
    BY <2>8 DEF p
  <2> QED BY <1>0, <1>1, <2>1, <2>7, <2>9, CopyPrimed
<1>6. CASE end_segment
  <2>1. pc = "copy" /\ pc' = "phdr" /\ mem' = mem /\ ld'.i = ld.i + 1 /\ ld.remaining = 0
    BY <1>6, EndSegmentLocals
  <2>2. /\ ld.i <= Len(in.phdrs) /\ ~Skipped(Seg) /\ ~TooBig(Seg)
        /\ ld.dst = Seg.vaddr + (Seg.filesz - 0)
    BY <2>1 DEF Copying
  <2>3. /\ ld.i \in Segs /\ Seg = in.phdrs[ld.i] /\ Seg.vaddr \in Nat /\ Seg.memsz \in Nat
        /\ Seg.filesz \in Nat /\ Seg.off \in Nat
    BY <2>2, SegFields DEF Segs
  <2>4. \A j \in Segs : j < ld.i + 1 => j < ld.i \/ j = ld.i
    BY <1>0, <1>1
  <2>5. ASSUME ~PastEnd(Seg) PROVE Placed(mem, ld.i, ld.i + 1)
    <3>1. PartCopied(mem, ld.dst) /\ ld.dst = Seg.vaddr + Seg.filesz
      BY <2>1, <2>2, <2>3, <2>5 DEF ImageSoFar
    <3>2. ASSUME NEW k \in 0 .. Seg.memsz - 1 PROVE mem[Seg.vaddr + k] = LoadedWord(Seg, k)
      <4>1. mem[Seg.vaddr + k] = IF Seg.vaddr + k < ld.dst THEN <<"img", Seg.off + k>> ELSE Zero
        BY <3>1 DEF PartCopied
      <4>2. Seg.vaddr + k < ld.dst <=> k < Seg.filesz
        BY <3>1, <2>3
      <4> QED BY <4>1, <4>2 DEF LoadedWord
    <3> QED BY <3>2, <2>3 DEF Placed
  <2>6. \A j \in Segs : j < ld'.i => PastEnd(in.phdrs[j]) \/ Placed(mem', j, ld'.i)
    BY <2>1, <2>3, <2>4, <2>5 DEF ImageSoFar
  <2>7. \A j \in Segs : j < ld'.i => ~TooBig(in.phdrs[j])
    BY <2>1, <2>2, <2>3, <2>4, <1>1
  <2> QED BY <1>0, <2>1, <2>6, <2>7, ImagePrimed
<1>7. CASE end_load
  <2>1. pc = "phdr" /\ pc' = "stack" /\ mem' = mem /\ ld'.i = ld.i
    BY <1>7, EndLoadLocals
  <2>2. \A j \in Segs : j < ld.i => PastEnd(in.phdrs[j]) \/ Placed(mem, j, ld.i)
    BY <2>1 DEF ImageSoFar
  <2> QED BY <1>0, <1>1, <2>1, <2>2, ImagePrimed
<1>8. CASE write_stub
  <2>1. pc' = "ehdr" /\ ld' = ld
    BY <1>8 DEF write_stub
  <2> QED BY <1>0, <1>1, <2>1, ImagePrimed
<1>9. CASE Later
  <2>1. pc' \notin {"phdr", "stack", "copy"} /\ ld' = ld
    BY <1>9 DEF Later, build_stack, write_chunk, fill_tls, clear_below_tls, write_tcb,
                place_arena, regs
  <2> QED BY <1>0, <1>1, <2>1, ImagePrimed
<1>10. CASE UNCHANGED <<in, mem, ld, eip, esp, g_brk, gs_base, g_mmap_ptr>>
            /\ ((pc # "stub" /\ pc' = "failed") \/ pc' = pc \/ (pc = "ehdr" /\ pc' = "phdr"))
  <2>1. ld' = ld /\ mem' = mem
    BY <1>10
  <2>2. CASE pc' = "failed"
    BY <1>0, <1>1, <2>1, <2>2, ImagePrimed
  <2>3. CASE pc = "ehdr" /\ pc' = "phdr"
    <3>1. \A j \in Segs : ~(j < ld.i)
      <4>1. \A j \in Segs : j \in 1 .. Len(in.phdrs)
        BY DEF Segs
      <4> QED BY <4>1, <2>3, <1>1 DEF Copying
    <3> QED BY <1>0, <2>1, <2>3, <3>1, ImagePrimed
  <2>4. CASE pc' = pc
    <3>1. CASE pc = "copy"
      BY <1>0, <1>1, <2>1, <2>4, <3>1, CopyPrimed DEF ImageSoFar
    <3>2. CASE pc # "copy"
      BY <1>0, <1>1, <2>1, <2>4, <3>2, ImagePrimed DEF ImageSoFar
    <3> QED BY <3>1, <3>2
  <2> QED BY <1>10, <2>2, <2>3, <2>4
<1> QED BY <1>3, <1>4, <1>5, <1>6, <1>7, <1>8, <1>9, <1>10, StepCases

\* Building the stack leaves what lies below it alone.
LEMMA ImageDone ==
    ASSUME Typed, Copying, ImageSoFar, ImageLoaded, [BootNext]_boot_vars
    PROVE  ImageLoaded'
<1>0. in' = in /\ in \in Inputs /\ ld.i \in Nat /\ Len(in.phdrs) \in Nat
  BY LocalsStep, LocalFields
<1>1. Segs' = Segs /\ EspBase' = EspBase
  BY <1>0, PlacedFixed, StackFixed
<1>2. CASE pc' # "chunk"
  BY <1>2 DEF ImageLoaded
<1>3. CASE build_stack
  <2>1. pc = "stack" /\ ld.i > Len(in.phdrs) /\ EspBase \in Nat
    BY <1>3, StackPlaced, <1>0 DEF build_stack, Copying
  <2>2. ASSUME NEW j \in Segs, ~PastEnd(in.phdrs[j])
        PROVE  \A k \in 0 .. in.phdrs[j].memsz - 1 :
                  \/ in.phdrs[j].vaddr + k >= EspBase
                  \/ \E l \in Segs : l > j /\ Covers(in.phdrs[l], in.phdrs[j].vaddr + k)
                  \/ mem'[in.phdrs[j].vaddr + k] = LoadedWord(in.phdrs[j], k)
    <3> SUFFICES ASSUME NEW k \in 0 .. in.phdrs[j].memsz - 1
                 PROVE  \/ in.phdrs[j].vaddr + k >= EspBase
                        \/ \E l \in Segs : l > j /\ Covers(in.phdrs[l], in.phdrs[j].vaddr + k)
                        \/ mem'[in.phdrs[j].vaddr + k] = LoadedWord(in.phdrs[j], k)
      OBVIOUS
    <3>1. j \in 1 .. Len(in.phdrs) /\ in.phdrs[j].vaddr \in Nat /\ in.phdrs[j].memsz \in Nat
      BY <1>0, SegNumbers
    <3>2. j < ld.i
      BY <3>1, <2>1, <1>0
    <3>3. ~TooBig(in.phdrs[j]) /\ Placed(mem, j, ld.i)
      BY <2>1, <2>2, <3>2 DEF ImageSoFar
    <3>4. in.phdrs[j].vaddr + k \in Addr /\ in.phdrs[j].vaddr + k \in Nat
      BY <3>1, <3>3, InSegment
    <3>5. \/ \E l \in Segs : l > j /\ Covers(in.phdrs[l], in.phdrs[j].vaddr + k)
          \/ mem[in.phdrs[j].vaddr + k] = LoadedWord(in.phdrs[j], k)
      BY <3>3 DEF Placed
    <3>6. CASE in.phdrs[j].vaddr + k < EspBase
      BY <3>4, <3>5, <3>6, <1>3, BelowStack
    <3> QED BY <3>4, <3>6, <2>1
  <2>3. \A j \in Segs : PastEnd(in.phdrs[j])' \/ SegmentInPlace(j)'
    BY <2>2, <1>0, <1>1 DEF SegmentInPlace, PastEnd, Covers, LoadedWord, Range, Zero
  <2> QED BY <2>3, <1>1 DEF ImageLoaded
<1>4. CASE write_chunk \/ fill_tls \/ clear_below_tls \/ write_tcb \/ place_arena \/ write_stub
  BY <1>4, <1>2 DEF write_chunk, fill_tls, clear_below_tls, write_tcb, place_arena, write_stub
<1>5. CASE skip_phdr \/ clear_segment \/ copy_chunk \/ end_segment \/ end_load
  BY <1>5, <1>2, SkipLocals, ClearLocals, ChunkLocals, EndSegmentLocals, EndLoadLocals
<1>6. CASE UNCHANGED <<in, mem, ld, eip, esp, g_brk, gs_base, g_mmap_ptr>>
            /\ ((pc # "stub" /\ pc' = "failed") \/ pc' = pc \/ (pc = "ehdr" /\ pc' = "phdr"))
  <2>1. CASE pc' = pc
    BY <2>1, <1>6, <1>0, <1>1 DEF ImageLoaded, SegmentInPlace, PastEnd, Covers, LoadedWord, Range, Zero
  <2> QED BY <1>6, <1>2, <2>1
<1> QED BY <1>3, <1>4, <1>5, <1>6, StepCases DEF Later

-------------------------------------------------------------------------------
(* The inductive invariant and what follows from it.                         *)

BootInv ==
    /\ Typed /\ Copying /\ EndKnown /\ Started
    /\ StubInPlace /\ TlsWords /\ StackWords /\ ImageSoFar /\ ImageLoaded

\* The invariant holds of an empty memory.
LEMMA BootInvInit == ASSUME BootInit PROVE BootInv
<1>1. pc = "stub" /\ in \in Inputs /\ ld.i = 1 /\ ld.load_end = 0
  BY DEF BootInit
<1>2. Len(in.phdrs) \in Nat
  BY <1>1, PhdrTyped
<1>3. ld \in Locals
  BY DEF BootInit, Locals
<1>4. Typed
  BY <1>1, <1>2, <1>3 DEF Typed, Steps
<1>5. Copying /\ StubInPlace /\ TlsWords /\ StackWords /\ Started /\ ImageLoaded
  BY <1>1 DEF Copying, StubInPlace, TlsWords, StackWords, Started, ImageLoaded
<1>6. EndKnown
  BY <1>1, BootSizes DEF EndKnown
<1>7. ImageSoFar
  <2>1. \A j \in Segs : ~(j < ld.i)
    BY <1>1, <1>2, SegNumbers
  <2> QED BY <1>1, <2>1 DEF ImageSoFar
<1> QED BY <1>4, <1>5, <1>6, <1>7 DEF BootInv

\* Every step keeps the invariant.
LEMMA BootInvStep == ASSUME BootInv, [BootNext]_boot_vars PROVE BootInv'
BY LocalsStep, EndKnownStep, StartedStep, StubStep, TlsStep, StackStep, ImageStep, ImageDone, Zenon
   DEF BootInv

\* Start-up keeps it.
THEOREM BootInvariant == BootSpec => []BootInv
<1>1. BootInit => BootInv
  BY BootInvInit
<1>2. BootInv /\ [BootNext]_boot_vars => BootInv'
  BY BootInvStep
<1> QED BY <1>1, <1>2, PTL DEF BootSpec

\* When load_elf returns, every segment is in memory, whatever their order and
\* overlap and however many chunks each took.
THEOREM LoaderPlacesSegments == BootSpec => []ImageLoaded
<1>1. BootInv => ImageLoaded
  BY DEF BootInv
<1> QED BY <1>1, BootInvariant, PTL

\* The vsyscall trampoline main wrote first is there when emulation starts, if
\* no segment lies on or below its page.
THEOREM TrampolineSurvives == BootSpec => []StubSurvives
<1>1. BootInv => StubSurvives
  BY DEF BootInv, StubInPlace, StubSurvives, SegsAbove
<1> QED BY <1>1, BootInvariant, PTL

\* The arena of mmap2 starts above the program, and above the thread block when
\* no boundary lies in between.
THEOREM ArenaPlaced == BootSpec => []ArenaAboveBlock
<1>1. ASSUME BootInv, pc = "run" PROVE ArenaAboveBlock
  <2> DEFINE e == ld.load_end
             b == arena_start
             t == TlsSize + HdrLen
  <2>1. /\ e \in Nat /\ e <= MemTop /\ t \in Nat /\ g_brk = e + t /\ g_mmap_ptr = b
        /\ t <= StubAddr
    BY <1>1, LocalFields, BootSizes DEF BootInv, EndKnown, Started
  <2>2. StubAddr + PageSize < MemTop
    <3>1. /\ EspBase \in Nat /\ StubAddr + PageSize <= EspBase
          /\ StrBase \in Nat /\ Argc \in Nat /\ EspBase + (Argc + 35) <= StrBase
          /\ RandomAddr \in Nat /\ StrBase <= RandomAddr /\ RandomAddr + RandBytes < MemTop
      BY <1>1, StackPlaced DEF BootInv, Typed
    <3> QED BY <3>1, BootSizes
  <2>3. /\ b \in Nat /\ e <= b /\ (b = ArenaStart \/ (b > ArenaStart /\ b % ArenaGrain = 0))
        /\ b <= MemTop /\ (e <= MemTop - ArenaGrain => b <= MemTop - ArenaGrain)
    <3>1. CASE e > ArenaStart
      <4>1. b = AlignUp(e, ArenaGrain)
        BY <3>1 DEF arena_start
      <4>2. AlignUp(e, ArenaGrain) \in Nat /\ e <= AlignUp(e, ArenaGrain)
            /\ AlignUp(e, ArenaGrain) % ArenaGrain = 0
        BY <2>1, BootSizes, UpFacts
      <4>3. AlignUp(e, ArenaGrain) <= MemTop
        BY <2>1, BootSizes, MemSteps, UpBound
      <4>4. ASSUME e <= MemTop - ArenaGrain
            PROVE  AlignUp(e, ArenaGrain) <= MemTop - ArenaGrain
        <5>1. MemTop - ArenaGrain \in Nat /\ (MemTop - ArenaGrain) % ArenaGrain = 0
          BY MemSteps
        <5> QED BY <4>4, <5>1, <2>1, BootSizes, UpBound
      <4> HIDE DEF e, b
      <4> QED BY <3>1, <4>1, <4>2, <4>3, <4>4, <2>1, BootSizes
    <3>2. CASE ~(e > ArenaStart)
      BY <3>2, <2>1, BootSizes, MemSteps DEF arena_start
    <3> QED BY <3>1, <3>2
  <2>4. ASSUME g_brk > b PROVE b \in ArenaBoundaries /\ b \in e .. g_brk - 1
    <3> HIDE DEF e, b, t
    <3>1. b \in 0 .. 2 * MemTop /\ b \in e .. g_brk - 1
      BY <2>1, <2>2, <2>3, <2>4, BootSizes
    <3> QED BY <3>1, <2>3 DEF ArenaBoundaries
  <2>5. e <= g_mmap_ptr
    BY <2>1, <2>3
  <2>6. ASSUME ArenaBoundaries \cap (e .. g_brk - 1) = {} PROVE g_brk <= g_mmap_ptr
    <3>1. ~(g_brk > b)
      BY <2>4, <2>6
    <3> HIDE DEF e, b, t
    <3> QED BY <3>1, <2>1, <2>3
  <2>7. g_mmap_ptr <= MemTop /\ (e <= MemTop - ArenaGrain => g_mmap_ptr <= MemTop - ArenaGrain)
    BY <2>1, <2>3
  <2> QED BY <2>5, <2>6, <2>7 DEF ArenaAboveBlock
<1>2. BootInv => ArenaAboveBlock
  BY <1>1 DEF ArenaAboveBlock
<1> QED BY <1>2, BootInvariant, PTL

\* The thread control block is whole when emulation starts.
THEOREM TlsBlockWhole == BootSpec => []TlsReady
<1>1. ASSUME BootInv, pc = "run", RoomForStack PROVE TlsReady
  <2>1. /\ ld.load_end \in Nat /\ g_brk = ld.load_end + (TlsSize + HdrLen)
        /\ gs_base = ld.load_end + HdrLen /\ esp = EspBase
    BY <1>1, LocalFields DEF BootInv, Started
  <2>2. gs_base = FakeTls /\ FakeTls \in Nat /\ FakeTls + TlsSize = g_brk /\ g_brk <= EspBase
    <3>1. FakeTls = ld.load_end + HdrLen
      BY DEF FakeTls, ChunkBase
    <3> QED BY <3>1, <2>1, <1>1, BootSizes DEF RoomForStack
  <2>3. EspBase \in Nat /\ EspBase < MemTop
    BY <1>1, StubInside, StackPlaced, BootSizes DEF BootInv, Typed
  <2>4. \A k \in 0 .. 5 : FakeTls + k < MemTop
    BY <2>2, <2>3, BootSizes
  <2>5. \A k \in 0 .. 5 :
           mem[FakeTls + k] = IF k \in {0, 1, 2, 5} THEN TcbWords[k] ELSE <<"ptr", StubAddr>>
    BY <1>1, <2>4 DEF BootInv, TlsWords
  <2>6. /\ TcbWords[0] = <<"ptr", StubAddr>> /\ TcbWords[1] = <<"ptr", FakeTls>>
        /\ TcbWords[2] = <<"ptr", FakeTls>> /\ TcbWords[5] = <<"canary", 0>>
    BY DEF TcbWords
  <2>7. /\ mem[FakeTls + 0] = <<"ptr", StubAddr>> /\ mem[FakeTls + 1] = <<"ptr", FakeTls>>
        /\ mem[FakeTls + 2] = <<"ptr", FakeTls>> /\ mem[FakeTls + 5] = <<"canary", 0>>
        /\ mem[FakeTls + 4] = <<"ptr", StubAddr>>
    BY <2>5, <2>6
  <2>8. FakeTls + 0 = FakeTls
    BY <2>2
  <2>9. gs_base + TlsSize <= g_brk
    BY <2>1, <2>2, BootSizes
  <2> QED BY <2>2, <2>7, <2>8, <2>9 DEF TlsReady
<1>2. BootInv => TlsReady
  BY <1>1 DEF TlsReady
<1> QED BY <1>2, BootInvariant, PTL

\* The types of the auxiliary vector's entries differ; AT_NULL is the last.
LEMMA AuxTypes ==
    /\ \A k \in 0 .. 15 : (Auxv[k + 1][1] = 25 <=> k = 14) /\ (Auxv[k + 1][1] = 9 <=> k = 6)
    /\ Auxv[15][2] = RandomAddr /\ Auxv[7][2] = in.entry /\ Auxv[16][1] = 0
<1> DEFINE A == Auxv
<1>1. /\ A[1][1] = 3 /\ A[2][1] = 4 /\ A[3][1] = 5 /\ A[4][1] = 6 /\ A[5][1] = 7 /\ A[6][1] = 8
      /\ A[7][1] = 9 /\ A[8][1] = 11 /\ A[9][1] = 12 /\ A[10][1] = 13 /\ A[11][1] = 14
      /\ A[12][1] = 16 /\ A[13][1] = 17 /\ A[14][1] = 23 /\ A[15][1] = 25 /\ A[16][1] = 0
      /\ A[15][2] = RandomAddr /\ A[7][2] = in.entry
  BY DEF Auxv
<1> HIDE DEF A
<1>2. ASSUME NEW k \in 0 .. 15
      PROVE  (A[k + 1][1] = 25 <=> k = 14) /\ (A[k + 1][1] = 9 <=> k = 6)
  <2>1. k = 0 \/ k = 1 \/ k = 2 \/ k = 3 \/ k = 4 \/ k = 5 \/ k = 6 \/ k = 7 \/ k = 8 \/ k = 9
        \/ k = 10 \/ k = 11 \/ k = 12 \/ k = 13 \/ k = 14 \/ k = 15
    OBVIOUS
  <2> QED BY <2>1, <1>1
<1> QED BY <1>1, <1>2 DEF A

\* Where the words of an entry stand.
LEMMA AuxWords ==
    ASSUME NEW k \in 0 .. 15
    PROVE  AuxWord(2 * k) = <<"a_type", Auxv[k + 1][1]>> /\ AuxWord(2 * k + 1) = <<"a_val", Auxv[k + 1][2]>>
<1>1. /\ (2 * k) % 2 = 0 /\ (2 * k) \div 2 = k
      /\ (2 * k + 1) % 2 = 1 /\ (2 * k + 1) \div 2 = k
  OBVIOUS
<1> QED BY <1>1 DEF AuxWord

\* The words of the block on the stack.
LEMMA HeaderWords ==
    ASSUME in \in Inputs
    PROVE  /\ HeaderWord(0) = <<"argc", Argc>>
           /\ \A i \in 1 .. Argc : HeaderWord(i) = <<"argv", ArgvAddr(i)>>
           /\ HeaderWord(Argc + 1) = <<"null", 0>> /\ HeaderWord(Argc + 2) = <<"null", 0>>
           /\ \A j \in 0 .. 31 : HeaderWord((Argc + 3) + j) = AuxWord(j)
<1>1. Argc \in Nat
  BY StackPlaced
<1>2. \A j \in 0 .. 31 : ((Argc + 3) + j) - (Argc + 3) = j /\ ~((Argc + 3) + j <= Argc + 2)
                         /\ ~((Argc + 3) + j <= Argc) /\ (Argc + 3) + j # 0
  BY <1>1
<1>3. \A j \in 0 .. 31 : HeaderWord((Argc + 3) + j) = AuxWord(j)
  BY <1>2 DEF HeaderWord
<1>4. \A i \in 1 .. Argc : i # 0 /\ i <= Argc
  BY <1>1
<1>5. /\ Argc + 1 # 0 /\ Argc + 2 # 0 /\ ~(Argc + 1 <= Argc) /\ ~(Argc + 2 <= Argc)
      /\ Argc + 1 <= Argc + 2 /\ Argc + 2 <= Argc + 2
  BY <1>1
<1>6. \A i \in 1 .. Argc : HeaderWord(i) = <<"argv", ArgvAddr(i)>>
  BY <1>4 DEF HeaderWord
<1>7. HeaderWord(0) = <<"argc", Argc>>
  BY DEF HeaderWord
<1>8. HeaderWord(Argc + 1) = <<"null", 0>> /\ HeaderWord(Argc + 2) = <<"null", 0>>
  BY <1>5 DEF HeaderWord
<1> QED BY <1>3, <1>6, <1>7, <1>8

\* The stack the C library reads up from ESP is what the ABI promises.
THEOREM StackAsPromised == BootSpec => []StackBuilt
<1>1. ASSUME BootInv, pc = "run", RoomForStack PROVE StackBuilt
  <2> DEFINE S == EspBase
             n == Argc
  <2>0. in \in Inputs /\ eip = in.entry /\ esp = S /\ ld.load_end + (TlsSize + HdrLen) <= S
        /\ ld.load_end + (TlsSize + HdrLen) \in Nat
    BY <1>1, LocalFields, BootSizes DEF BootInv, Started, RoomForStack, Typed
  <2>1. /\ S \in Nat /\ n \in Nat /\ S % Align = 0 /\ StrBase \in Nat /\ S + (n + 35) <= StrBase
        /\ RandomAddr \in Nat /\ StrBase <= RandomAddr /\ RandomAddr + RandBytes < MemTop
        /\ RandBytes \in Nat /\ MemTop \in Nat
    BY <2>0, StackPlaced, BootSizes
  <2>2. ASSUME NEW a \in Nat, a >= S, a < MemTop
        PROVE  /\ a \in Range(S, n + 35) => mem[a] = HeaderWord(a - S)
               /\ a \in Range(RandomAddr, RandBytes) => mem[a] = <<"rnd", a - RandomAddr>>
               /\ \A i \in 1 .. n : a \in Range(ArgvAddr(i), in.args[i]) => mem[a] = <<"str", i>>
    <3>1. a \in Addr /\ a >= ld.load_end + (TlsSize + HdrLen)
      BY <2>0, <2>1, <2>2 DEF Addr
    <3> QED BY <3>1, <1>1, Zenon DEF BootInv, StackWords
  <2> HIDE DEF S, n
  <2>3. ASSUME NEW k \in 0 .. n + 34 PROVE mem[S + k] = HeaderWord(k)
    <3>1. /\ S + k \in Nat /\ S + k >= S /\ S + k < MemTop /\ S + k \in Range(S, n + 35)
          /\ (S + k) - S = k
      BY <2>1 DEF Range
    <3> QED BY <3>1, <2>2
  <2>4. /\ HeaderWord(0) = <<"argc", n>>
        /\ \A i \in 1 .. n : HeaderWord(i) = <<"argv", ArgvAddr(i)>>
        /\ HeaderWord(n + 1) = <<"null", 0>> /\ HeaderWord(n + 2) = <<"null", 0>>
        /\ \A j \in 0 .. 31 : HeaderWord((n + 3) + j) = AuxWord(j)
    BY <2>0, HeaderWords DEF n
  <2>5. mem[S] = <<"argc", n>> /\ mem[S][2] = n
    <3>1. 0 \in 0 .. n + 34 /\ S + 0 = S
      BY <2>1
    <3>2. mem[S] = HeaderWord(0)
      BY <2>3, <3>1
    <3> QED BY <3>2, <2>4
  <2>6. \A i \in 1 .. n : mem[S + i] = <<"argv", ArgvAddr(i)>>
    <3>1. \A i \in 1 .. n : i \in 0 .. n + 34
      BY <2>1
    <3> QED BY <2>3, <2>4, <3>1
  <2>7. mem[(S + n) + 1] = <<"null", 0>> /\ mem[(S + n) + 2] = <<"null", 0>>
    <3>1. /\ n + 1 \in 0 .. n + 34 /\ n + 2 \in 0 .. n + 34
          /\ (S + n) + 1 = S + (n + 1) /\ (S + n) + 2 = S + (n + 2)
      BY <2>1
    <3> QED BY <2>3, <2>4, <3>1
  <2> DEFINE X == (S + n) + 3
  <2>8. AuxAt = X /\ X \in Nat
    BY <2>0, <2>1, <2>5 DEF AuxAt
  <2>9. \A j \in 0 .. 31 : mem[X + j] = AuxWord(j)
    <3>1. \A j \in 0 .. 31 : (n + 3) + j \in 0 .. n + 34 /\ X + j = S + ((n + 3) + j)
      BY <2>1
    <3> QED BY <2>3, <2>4, <3>1
  <2> HIDE DEF X
  <2>10. ASSUME NEW k \in 0 .. 15
         PROVE  mem[X + 2 * k] = <<"a_type", Auxv[k + 1][1]>>
                /\ mem[(X + 2 * k) + 1] = <<"a_val", Auxv[k + 1][2]>>
    <3>1. 2 * k \in 0 .. 31 /\ 2 * k + 1 \in 0 .. 31 /\ (X + 2 * k) + 1 = X + (2 * k + 1)
      BY <2>8
    <3> QED BY <2>9, <3>1, AuxWords
  <2>11. AuxVal(25) = RandomAddr
    <3>1. \A k \in 0 .. 15 : mem[X + 2 * k] = <<"a_type", 25>> <=> k = 14
      BY <2>10, AuxTypes
    <3>2. (CHOOSE k \in 0 .. AuxEntries - 1 : mem[AuxAt + 2 * k] = <<"a_type", 25>>) = 14
      BY <3>1, <2>8, BootSizes
    <3>3. mem[(X + 2 * 14) + 1][2] = RandomAddr
      BY <2>10, AuxTypes
    <3>4. AuxVal(25) = mem[(AuxAt + 2 * 14) + 1][2]
      BY <3>2 DEF AuxVal
    <3> QED BY <3>3, <3>4, <2>8
  <2>12. AuxVal(9) = eip
    <3>1. \A k \in 0 .. 15 : mem[X + 2 * k] = <<"a_type", 9>> <=> k = 6
      BY <2>10, AuxTypes
    <3>2. (CHOOSE k \in 0 .. AuxEntries - 1 : mem[AuxAt + 2 * k] = <<"a_type", 9>>) = 6
      BY <3>1, <2>8, BootSizes
    <3>3. mem[(X + 2 * 6) + 1][2] = in.entry
      BY <2>10, AuxTypes
    <3>4. AuxVal(9) = mem[(AuxAt + 2 * 6) + 1][2]
      BY <3>2 DEF AuxVal
    <3> QED BY <3>3, <3>4, <2>0, <2>8
  <2>13. mem[AuxAt + 2 * (AuxEntries - 1)] = <<"a_type", 0>>
    <3>1. mem[X + 2 * 15] = <<"a_type", Auxv[15 + 1][1]>>
      BY <2>10
    <3> QED BY <3>1, <2>8, AuxTypes, BootSizes
  <2>14. \A k \in 0 .. RandBytes - 1 : mem[RandomAddr + k] = <<"rnd", k>>
    <3> SUFFICES ASSUME NEW k \in 0 .. RandBytes - 1 PROVE mem[RandomAddr + k] = <<"rnd", k>>
      OBVIOUS
    <3>1. /\ RandomAddr + k \in Nat /\ RandomAddr + k >= S /\ RandomAddr + k < MemTop
          /\ RandomAddr + k \in Range(RandomAddr, RandBytes) /\ (RandomAddr + k) - RandomAddr = k
      BY <2>1 DEF Range
    <3> QED BY <3>1, <2>2
  <2>15. \A i \in 1 .. n : \A a \in Range(ArgvAddr(i), in.args[i]) : mem[a] = <<"str", i>>
    <3> SUFFICES ASSUME NEW i \in 1 .. n, NEW a \in Range(ArgvAddr(i), in.args[i])
                 PROVE  mem[a] = <<"str", i>>
      OBVIOUS
    <3>1. /\ ArgvAddr(i) \in Nat /\ in.args[i] \in Nat
          /\ StrBase <= ArgvAddr(i) /\ ArgvAddr(i) + in.args[i] <= RandomAddr
      BY <2>0, ArgvPlaced DEF n
    <3>2. a \in Nat /\ a >= S /\ a < MemTop
      BY <3>1, <2>1 DEF Range
    <3> QED BY <3>2, <2>2
  <2>16. guest_argc(Len(in.args)) = n
    BY DEF n, Argc
  <2>17. \A i \in 1 .. n : mem[S + i][1] = "argv" /\ mem[S + i][2] = ArgvAddr(i)
    BY <2>6
  <2>18. \A i \in 1 .. n :
            /\ mem[S + i][1] = "argv"
            /\ \A a \in Range(mem[S + i][2], in.args[i]) : mem[a] = <<"str", i>>
    BY <2>15, <2>17, Zenon
  <2> QED BY <2>0, <2>1, <2>5, <2>7, <2>11, <2>12, <2>13, <2>14, <2>16, <2>18, Zenon DEF StackBuilt
<1>2. BootInv => StackBuilt
  BY <1>1, Zenon DEF StackBuilt
<1> QED BY <1>2, BootInvariant, PTL
===============================================================================
