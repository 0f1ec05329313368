----------------------------- MODULE AddressSpace -----------------------------
(***************************************************************************)
(* The guest's dynamic memory: the program break (sys_brk) and the bump    *)
(* arena of sys_mmap2, sys_munmap, sys_mprotect (backend_win32.c).  One    *)
(* action is one system call; GuestStore is the guest writing a byte of    *)
(* memory it was given.                                                    *)
(*                                                                         *)
(* Addresses are uint32_t in the code: arithmetic done in that type wraps  *)
(* at WordMod, arithmetic done after a cast to size_t does not.            *)
(***************************************************************************)
EXTENDS ProcessMemory, ErrorNumbers

CONSTANTS
    WordMod,        \* 2^32 in the code: the modulus of uint32_t
    MemSize,        \* mem_size(): 512 MB, set up by init_mem in main.c
    StackReserve,   \* 0x100000, kept free for the stack by sys_mmap2
    HdrBytes,       \* 8: size of the malloc chunk header sys_brk writes
    Layouts,        \* where main may leave the break and the arena
    BrkArgs,        \* the breaks the guest asks for
    MapLens,        \* the lengths it maps
    FixedAddrs,     \* the addresses it passes with MAP_FIXED
    StoreAddrs      \* the bytes it stores to

ASSUME SizesAssumption ==
    /\ WordMod \in Nat /\ PageSize \in Nat \ {0} /\ MemSize \in Nat
    /\ StackReserve \in Nat \ {0} /\ HdrBytes \in Nat
    /\ StackReserve <= MemSize /\ MemSize < WordMod

\* What main guarantees (Boot): an arena that starts inside guest memory or at
\* its very end.  The first break may lie above the arena, and even above
\* guest memory, when the program ends near either.
ASSUME LayoutAssumption ==
    Layouts \subseteq [heap : Nat \ {0}, arena : 1 .. MemSize]

ASSUME InputsAssumption ==
    /\ BrkArgs \subseteq 0 .. WordMod - 1
    /\ MapLens \subseteq 0 .. WordMod - 1
    /\ FixedAddrs \subseteq 0 .. WordMod - 1
    /\ StoreAddrs \subseteq 0 .. MemSize - 1

VARIABLES
    layout,         \* where main left them: the first break and g_mmap_base
    maps,           \* history: what each successful mmap2 handed out
    stored,         \* bytes that still hold what the guest last stored there
    alive,          \* FALSE once the emulator process has died
    ret             \* what the last call returned: an address or an errno

vars == <<g_brk, g_mmap_ptr, layout, maps, stored, alive, ret>>

\* The error numbers of these calls.
Errno == {EINVAL, ENOSYS, ENOMEM, EFAULT}

\* The addresses of n bytes from lo on.
Bytes(lo, n) == lo .. (lo + n - 1)

\* (len + 0xFFF) & ~0xFFFu in uint32_t.
AlignLen(len) ==
    LET up == (len + PageSize - 1) % WordMod
    IN  up - (up % PageSize)

\* The break when emulation starts, and g_mmap_base.
HeapBase == layout.heap
ArenaBase == layout.arena

\* What the guest may use: its heap and its mappings.
Owned == Bytes(HeapBase, g_brk - HeapBase)
            \cup UNION {Bytes(m.addr, m.size) : m \in maps}

ArenaMaps == {m \in maps : ~m.fixed}

\* The program ends low enough for an arena below the memory kept for the stack.
Room == ArenaBase <= MemSize - StackReserve

-------------------------------------------------------------------------------
Init ==
    /\ layout \in Layouts
    /\ g_brk = HeapBase
    /\ g_mmap_ptr = ArenaBase
    /\ maps = {}
    /\ stored = {}
    /\ alive = TRUE
    /\ ret = 0

\* Mutated forms of BrkRefused: the bound off by one, shrinking allowed.
BrkRefusedLate(new_brk) == new_brk = 0 \/ new_brk < g_brk \/ new_brk > MemSize
BrkMayShrink(new_brk) == new_brk = 0 \/ new_brk < HeapBase \/ new_brk >= MemSize

\* sys_brk: 0, a lower break and a break past guest memory only report the
\* current one.  A growth of at least a header writes a malloc chunk header
\* over the first bytes of the new memory.
BrkRefused(new_brk) ==
    \/ new_brk = 0
    \/ new_brk < g_brk
    \/ new_brk >= MemSize

\* Mutated form of ChunkHeader: the header in front of the new memory, where
\* malloc keeps it.
ChunkHeaderBelow(new_brk) ==
    IF new_brk - g_brk >= HdrBytes THEN Bytes(g_brk - HdrBytes, HdrBytes) ELSE {}

ChunkHeader(new_brk) ==
    IF new_brk - g_brk >= HdrBytes THEN Bytes(g_brk, HdrBytes) ELSE {}

sys_brk(new_brk) ==
    /\ alive
    /\ IF BrkRefused(new_brk)
       THEN UNCHANGED <<g_brk, stored>>
       ELSE /\ g_brk' = new_brk
            /\ stored' = stored \ ChunkHeader(new_brk)
    /\ ret' = g_brk'
    /\ UNCHANGED <<g_mmap_ptr, layout, maps, alive>>

\* The exits of sys_mmap2 that leave everything alone.
mmap2_fail(errno) ==
    /\ ret' = errno
    /\ UNCHANGED <<g_brk, g_mmap_ptr, layout, maps, stored, alive>>

\* guest_to_host and the memset that ends sys_mmap2.  guest_to_host checks one
\* byte; a memset that runs past the end of guest memory kills the emulator.
mmap2_zero(addr, len, fixed) ==
    LET size == AlignLen(len) IN
    /\ IF addr >= MemSize
       THEN ret' = EFAULT /\ UNCHANGED <<maps, stored, alive>>
       ELSE IF addr + size > MemSize
       THEN alive' = FALSE /\ UNCHANGED <<maps, stored, ret>>
       ELSE /\ maps' = maps \cup
                 {[addr |-> addr, len |-> len, size |-> size, fixed |-> fixed]}
            /\ stored' = stored \ Bytes(addr, size)
            /\ ret' = addr
            /\ UNCHANGED alive
    /\ UNCHANGED <<g_brk, layout>>

\* A mapping without MAP_FIXED.  The bound is compared after the uint32_t sum.
ArenaFull(size) ==
    \/ g_mmap_ptr = 0
    \/ (g_mmap_ptr + size) % WordMod > MemSize - StackReserve

\* Mutated form of ArenaAdvance: the pointer is not bumped.
ArenaStays(size) == g_mmap_ptr

ArenaAdvance(size) == (g_mmap_ptr + size) % WordMod

sys_mmap2_arena(len) ==
    /\ alive
    /\ IF len = 0 THEN mmap2_fail(EINVAL)
       ELSE IF ArenaFull(AlignLen(len)) THEN mmap2_fail(ENOMEM)
       ELSE /\ g_mmap_ptr' = ArenaAdvance(AlignLen(len))
            /\ mmap2_zero(g_mmap_ptr, len, FALSE)

\* A mapping with MAP_FIXED.  The bound is compared as size_t.
sys_mmap2_fixed(addr, len) ==
    /\ alive
    /\ IF len = 0 THEN mmap2_fail(EINVAL)
       ELSE IF addr + AlignLen(len) > MemSize THEN mmap2_fail(ENOMEM)
       ELSE /\ mmap2_zero(addr, len, TRUE)
            /\ UNCHANGED g_mmap_ptr

\* A file-backed mapping (a descriptor and no MAP_ANONYMOUS) is refused.
sys_mmap2_file(len) ==
    /\ alive
    /\ mmap2_fail(IF len = 0 THEN EINVAL ELSE ENOSYS)

\* sys_munmap and sys_mprotect accept anything and do nothing.
sys_munmap ==
    /\ alive
    /\ ret' = 0
    /\ UNCHANGED <<g_brk, g_mmap_ptr, layout, maps, stored, alive>>

\* The guest stores to a byte it was given.
GuestStore(a) ==
    /\ alive
    /\ a \in Owned
    /\ stored' = stored \cup {a}
    /\ UNCHANGED <<g_brk, g_mmap_ptr, layout, maps, alive, ret>>

\* The emulator process is gone.
Dead == ~alive /\ UNCHANGED vars

Next ==
    \/ \E b \in BrkArgs : sys_brk(b)
    \/ \E n \in MapLens : sys_mmap2_arena(n)
    \/ \E a \in FixedAddrs, n \in MapLens : sys_mmap2_fixed(a, n)
    \/ \E n \in MapLens : sys_mmap2_file(n)
    \/ sys_munmap
    \/ \E a \in StoreAddrs : GuestStore(a)
    \/ Dead

Spec == Init /\ [][Next]_vars

-------------------------------------------------------------------------------
Mapping == [addr : 0 .. MemSize - 1, len : 0 .. WordMod - 1,
            size : 0 .. MemSize, fixed : BOOLEAN]

\* Every variable has its type: the break, once it has moved, and all mapped
\* memory lie inside guest memory, whatever lengths and breaks sys_brk and
\* sys_mmap2 are given.
TypeOK ==
    /\ layout \in Layouts
    /\ g_brk = HeapBase \/ g_brk \in HeapBase .. MemSize - 1
    /\ g_mmap_ptr \in 0 .. WordMod - 1
    /\ maps \subseteq Mapping
    /\ stored \subseteq 0 .. MemSize - 1
    /\ alive \in BOOLEAN
    /\ ret \in Errno \cup Nat

Overlap(m, n) == Bytes(m.addr, m.size) \cap Bytes(n.addr, n.size) # {}

\* The arena is what main set up: there is room for it, or no request has yet
\* wrapped the pointer of an arena that starts at the end of guest memory.
ArenaKept == Room \/ ArenaBase <= g_mmap_ptr

\* The mappings sys_mmap2 carves out of the arena never overlap each other,
\* never start below the arena and never reach into the memory reserved for
\* the stack, even when the uint32_t sums of sys_mmap2 wrap.  Without room for
\* an arena this lasts until a wrapping request fails with EFAULT, the pointer
\* already moved (MappingsAboveBase).
ArenaDisjoint ==
    ArenaKept =>
        \A m \in ArenaMaps :
            /\ ArenaBase <= m.addr
            /\ m.addr + m.size <= MemSize - StackReserve
            /\ \A n \in ArenaMaps : Overlap(m, n) => m = n

\* While the guest keeps its heap below the arena and never maps with
\* MAP_FIXED, no system call loses a byte the guest stored: neither the chunk
\* header sys_brk writes nor the zeroing of sys_mmap2 lands on it.
StoresSurvive ==
    [][(ArenaKept /\ g_brk' <= ArenaBase /\ maps' = ArenaMaps')
         => stored \subseteq stored']_vars

\* The calls keep what GuestMemoryPromise promises, in every layout: for good
\* where there is room for an arena, else until its pointer is lost.
Promise == INSTANCE GuestMemoryPromise WITH
    Ceiling   <- MemSize,
    heapTop   <- g_brk,
    free      <- g_mmap_ptr .. (MemSize - StackReserve - 1),
    granted   <- {Bytes(m.addr, m.size) : m \in ArenaMaps},
    up        <- alive /\ ArenaKept

KeepsPromise == Promise!PromiseSpec

-------------------------------------------------------------------------------
(* What comments of the repository say and the code does not do. *)


\* "mmap2 allocates out of the arena above the heap": no mapping of sys_mmap2
\* starts below g_mmap_base.
MappingsAboveBase == \A m \in ArenaMaps : ArenaBase <= m.addr
===============================================================================
