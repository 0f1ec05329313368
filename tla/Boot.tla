--------------------------------- MODULE Boot ---------------------------------
(***************************************************************************)
(* From an empty guest memory to the first instruction: main (main.c) and  *)
(* load_elf (loader.c).  One action is one step of that sequence; any step *)
(* of the loader that reads the file may fail and end it.                  *)
(*                                                                         *)
(* The unit of memory is a 32-bit word.  A cell is <<what, n>>: "img" n is *)
(* word n of the file, "zero" a word that was never written or cleared.    *)
(***************************************************************************)
EXTENDS StackLayout, ProcessMemory

CONSTANTS ChunkLen,     \* 4096: what the loader reads at once
          StubAddr,     \* STUB_ADDR: 0x1000
          TlsSize,      \* FAKE_TLS_SIZE: 0x400
          HdrLen,       \* 8: the malloc chunk header
          ArenaStart,   \* 0x0C000000
          ArenaGrain,   \* 0x01000000
          Inputs        \* the ELF files and arguments the emulator is given

ASSUME BootAssumption ==
    /\ PageSize \in Nat \ {0} /\ ChunkLen \in Nat \ {0} /\ StubAddr \in Nat
    /\ TlsSize \in Nat /\ HdrLen \in Nat /\ ArenaStart \in Nat
    /\ ArenaGrain \in Nat \ {0}
    /\ TlsSize >= 6 /\ TlsSize <= PageSize /\ TlsSize + HdrLen <= StubAddr
    /\ StubAddr % PageSize = 0
    /\ MemTop % PageSize = 0 /\ MemTop % ArenaGrain = 0 /\ ArenaStart <= MemTop - ArenaGrain
    /\ AuxEntries = 16

\* A header of a program, and the arguments (their lengths with the terminator)
\* as main passes them on: the stack they need ends above the trampoline's page.
ASSUME InputAssumption ==
    \A x \in Inputs :
        LET argc == guest_argc(Len(x.args)) IN
        /\ x.phdrs \in Seq([type : STRING, vaddr : Nat, off : Nat, filesz : Nat, memsz : Nat])
        /\ x.args \in Seq(Nat \ {0})
        /\ {x.size, x.phoff, x.phentsize, x.entry} \subseteq Nat
        /\ StubAddr + PageSize <= esp_base(RandBytes + StringsBefore(x.args, argc), argc)

VARIABLES pc, in, mem,
          ld,        \* the loader's locals
          eip, esp, gs_base

boot_vars == <<pc, in, mem, ld, eip, esp, g_brk, gs_base, g_mmap_ptr>>
regs == <<eip, esp, g_brk, gs_base, g_mmap_ptr>>

Addr == 0 .. MemTop - 1
Range(lo, n) == lo .. (lo + n - 1)

\* Guest memory after the writes w, a function from addresses to words; those
\* outside guest memory are dropped, as in mem_write8 and mem_write32.
Put(w) == [a \in Addr |-> IF a \in DOMAIN w THEN w[a] ELSE mem[a]]

Zero == <<"zero", 0>>

\* (x + g - 1) & ~(g - 1)
AlignUp(x, g) == LET up == x + g - 1 IN up - (up % g)

Seg == in.phdrs[ld.i]

BootInit ==
    /\ pc = "stub"
    /\ in \in Inputs
    /\ mem = [a \in Addr |-> Zero]
    /\ ld = [i |-> 1, load_end |-> 0, load_addr |-> 0, first |-> TRUE,
             remaining |-> 0, dst |-> 0, cursor |-> 0]
    /\ eip = 0 /\ esp = 0 /\ g_brk = 0 /\ gs_base = 0 /\ g_mmap_ptr = 0

\* main writes the vsyscall trampoline before it loads the program.
write_stub ==
    /\ pc = "stub"
    /\ mem' = Put([a \in {StubAddr} |-> <<"stub", 0>>])
    /\ pc' = "ehdr"
    /\ UNCHANGED <<in, ld, regs>>

Fail == pc' = "failed" /\ UNCHANGED <<in, mem, ld, regs>>

\* fopen, the read of the ELF header and the checks on it.
check_header ==
    /\ pc = "ehdr"
    /\ \/ Fail
       \/ /\ in.header_ok
          /\ pc' = "phdr"
          /\ UNCHANGED <<in, mem, ld, regs>>

-------------------------------------------------------------------------------
(* One round of the loader's loop over the program headers. *)

Skipped(p) == p.type # "load" \/ p.memsz = 0
TooBig(p) == p.vaddr + p.memsz > MemTop

next_phdr == ld' = [ld EXCEPT !.i = @ + 1]

read_phdr_fails == pc = "phdr" /\ ld.i <= Len(in.phdrs) /\ Fail

skip_phdr ==
    /\ pc = "phdr" /\ ld.i <= Len(in.phdrs)
    /\ Skipped(Seg)
    /\ next_phdr
    /\ UNCHANGED <<pc, in, mem, regs>>

segment_too_big ==
    /\ pc = "phdr" /\ ld.i <= Len(in.phdrs)
    /\ ~Skipped(Seg) /\ TooBig(Seg)
    /\ Fail

\* Mutated form of ClearSegment: guest memory starts out zero anyway.
TrustCalloc(p) == mem

\* The whole of p_memsz is cleared first.
ClearSegment(p) == Put([a \in Range(p.vaddr, p.memsz) |-> Zero])

clear_segment ==
    /\ pc = "phdr" /\ ld.i <= Len(in.phdrs)
    /\ ~Skipped(Seg) /\ ~TooBig(Seg)
    /\ mem' = ClearSegment(Seg)
    /\ ld' = [ld EXCEPT !.load_addr = IF ld.first THEN Seg.vaddr ELSE @,
                        !.first = FALSE,
                        !.remaining = Seg.filesz,
                        !.dst = Seg.vaddr,
                        !.cursor = Seg.off]
    /\ pc' = "copy"
    /\ UNCHANGED <<in, regs>>

ToRead == IF ld.remaining < ChunkLen THEN ld.remaining ELSE ChunkLen

\* The fseek to the segment's data or an fread of it may fail; the fread does
\* when the file is too short for it.
short_read == pc = "copy" /\ ld.remaining > 0 /\ Fail

\* In the code dst is a uint32_t; it can only wrap for a segment with nearly
\* 4 GB of file contents, all of which would have to be in the file.
AfterChunk == [ld EXCEPT !.remaining = @ - ToRead, !.dst = @ + ToRead,
                         !.cursor = @ + ToRead]

\* mem_copy_in drops a chunk that does not fit in guest memory.
copy_chunk ==
    /\ pc = "copy" /\ ld.remaining > 0
    /\ ld.cursor + ToRead <= in.size
    /\ mem' = IF ld.dst + ToRead > MemTop THEN mem
              ELSE Put([a \in Range(ld.dst, ToRead) |-> <<"img", ld.cursor + (a - ld.dst)>>])
    /\ ld' = AfterChunk
    /\ UNCHANGED <<pc, in, regs>>

SegEnd == Seg.vaddr + Seg.memsz

\* Mutated form of end_segment: the loop does not move on to the next header.
end_segment_again ==
    /\ pc = "copy" /\ ld.remaining = 0
    /\ ld' = [ld EXCEPT !.load_end = IF SegEnd > @ THEN SegEnd ELSE @]
    /\ pc' = "phdr"
    /\ UNCHANGED <<in, mem, regs>>

end_segment ==
    /\ pc = "copy" /\ ld.remaining = 0
    /\ ld' = [ld EXCEPT !.load_end = IF SegEnd > @ THEN SegEnd ELSE @, !.i = @ + 1]
    /\ pc' = "phdr"
    /\ UNCHANGED <<in, mem, regs>>

end_load ==
    /\ pc = "phdr" /\ ld.i > Len(in.phdrs)
    /\ ld' = [ld EXCEPT !.load_end = AlignUp(@, PageSize)]
    /\ eip' = in.entry
    /\ pc' = "stack"
    /\ UNCHANGED <<in, mem, esp, g_brk, gs_base, g_mmap_ptr>>

-------------------------------------------------------------------------------
(* The initial stack. *)

Argc == guest_argc(Len(in.args))
StringBytes == RandBytes + StringsBefore(in.args, Argc)
StrBase == str_area_base(StringBytes)
EspBase == esp_base(StringBytes, Argc)
ArgvAddr(i) == StrBase + StringsBefore(in.args, i - 1)
RandomAddr == StrBase + StringsBefore(in.args, Argc)
AtPhdr == ld.load_addr + in.phoff

\* The auxiliary vector, type and value, terminated by AT_NULL.
Auxv == <<<<3, AtPhdr>>, <<4, in.phentsize>>, <<5, Len(in.phdrs)>>, <<6, PageSize>>,
          <<7, 0>>, <<8, 0>>, <<9, in.entry>>, <<11, 1000>>, <<12, 1000>>, <<13, 1000>>,
          <<14, 1000>>, <<16, 35088>>, <<17, 100>>, <<23, 0>>, <<25, RandomAddr>>, <<0, 0>>>>

AuxWord(k) == IF k % 2 = 0 THEN <<"a_type", Auxv[k \div 2 + 1][1]>>
              ELSE <<"a_val", Auxv[k \div 2 + 1][2]>>

\* Word k of the block put32 writes forward from the stack pointer.
HeaderWord(k) == IF k = 0 THEN <<"argc", Argc>>
                 ELSE IF k <= Argc THEN <<"argv", ArgvAddr(k)>>
                 ELSE IF k <= Argc + 2 THEN <<"null", 0>>
                 ELSE AuxWord(k - (Argc + 3))

\* Strings first, then the random words, then the block below them.
build_stack ==
    /\ pc = "stack"
    /\ mem' = [a \in Addr |->
         IF a \in Range(EspBase, header_words(Argc)) THEN HeaderWord(a - EspBase)
         ELSE IF a \in Range(RandomAddr, RandBytes) THEN <<"rnd", a - RandomAddr>>
         ELSE IF a \in Range(StrBase, RandomAddr - StrBase)
         THEN <<"str", CHOOSE i \in 1 .. Argc : a \in Range(ArgvAddr(i), in.args[i])>>
         ELSE mem[a]]
    /\ esp' = EspBase
    /\ pc' = "chunk"
    /\ UNCHANGED <<in, ld, eip, g_brk, gs_base, g_mmap_ptr>>

-------------------------------------------------------------------------------
(* The fake TLS block main puts above the program. *)

ChunkBase == ld.load_end
ChunkSize == TlsSize + HdrLen
FakeTls == ChunkBase + HdrLen

\* init_brk and the chunk header; the break then moves past the block.
write_chunk ==
    /\ pc = "chunk"
    /\ mem' = Put([a \in Range(ChunkBase, HdrLen) |-> <<"chunk", a - ChunkBase>>])
    /\ g_brk' = ChunkBase + ChunkSize
    /\ pc' = "fill"
    /\ UNCHANGED <<in, ld, eip, esp, gs_base, g_mmap_ptr>>

fill_tls ==
    /\ pc = "fill"
    /\ mem' = Put([a \in Range(FakeTls, TlsSize) |-> <<"ptr", StubAddr>>])
    /\ pc' = "clear"
    /\ UNCHANGED <<in, ld, regs>>

\* Mutated forms of BelowTls: the sign of the offset; no lower end.
AboveTls == Range(FakeTls + 1, TlsSize)
AllBelowTls == Range(0, FakeTls)

\* for (i = 4; i <= 0x400; i += 4) mem_write32(fake_tls_base - i, 0)
BelowTls == Range(FakeTls - TlsSize, TlsSize)

clear_below_tls ==
    /\ pc = "clear"
    /\ mem' = Put([a \in BelowTls |-> Zero])
    /\ pc' = "tcb"
    /\ UNCHANGED <<in, ld, regs>>

\* The thread control block's first words: 0, 4, 8 and 0x14.
TcbWords == [k \in {0, 1, 2, 5} |-> IF k = 0 THEN <<"ptr", StubAddr>>
                                   ELSE IF k = 5 THEN <<"canary", 0>> ELSE <<"ptr", FakeTls>>]

write_tcb ==
    /\ pc = "tcb"
    /\ mem' = Put([a \in {FakeTls + k : k \in DOMAIN TcbWords} |-> TcbWords[a - FakeTls]])
    /\ gs_base' = FakeTls
    /\ pc' = "arena"
    /\ UNCHANGED <<in, ld, eip, esp, g_brk, g_mmap_ptr>>

\* Mutated form of arena_start: rounded down.
arena_rounded_down ==
    IF ld.load_end > ArenaStart THEN ld.load_end - (ld.load_end % ArenaGrain) ELSE ArenaStart

arena_start ==
    IF ld.load_end > ArenaStart THEN AlignUp(ld.load_end, ArenaGrain) ELSE ArenaStart

place_arena ==
    /\ pc = "arena"
    /\ g_mmap_ptr' = arena_start
    /\ pc' = "run"
    /\ UNCHANGED <<in, mem, ld, eip, esp, g_brk, gs_base>>

\* emulate takes over, or main has returned EXIT_FAILURE.
Stopped == pc \in {"run", "failed"} /\ UNCHANGED boot_vars

BootNext ==
    \/ write_stub \/ check_header
    \/ read_phdr_fails \/ skip_phdr \/ segment_too_big \/ clear_segment
    \/ short_read \/ copy_chunk \/ end_segment \/ end_load
    \/ build_stack
    \/ write_chunk \/ fill_tls \/ clear_below_tls \/ write_tcb \/ place_arena
    \/ Stopped

BootSpec == BootInit /\ [][BootNext]_boot_vars /\ WF_boot_vars(BootNext)

-------------------------------------------------------------------------------
Steps == {"stub", "ehdr", "phdr", "copy", "stack", "chunk", "fill", "clear",
          "tcb", "arena", "run", "failed"}
Tags == {"zero", "stub", "img", "str", "rnd", "argc", "argv", "null",
         "a_type", "a_val", "chunk", "ptr", "canary"}

\* Every variable has its type; the loader never runs past its headers and
\* the stack pointer never leaves guest memory.
BootTypeOK ==
    /\ pc \in Steps
    /\ \A a \in Addr : mem[a][1] \in Tags
    /\ ld.i \in 1 .. Len(in.phdrs) + 1
    /\ ld.remaining \in Nat /\ ld.load_end \in 0 .. AlignUp(MemTop, PageSize)
    /\ esp \in Addr

Segs == {j \in 1 .. Len(in.phdrs) : ~Skipped(in.phdrs[j])}

Covers(p, a) == a \in Range(p.vaddr, IF p.filesz > p.memsz THEN p.filesz ELSE p.memsz)

\* Word k of a segment: its file contents, and zeros behind them.
LoadedWord(p, k) == IF k < p.filesz THEN <<"img", p.off + k>> ELSE Zero

\* Segment j's words are in memory, except where a later segment or the stack
\* was put on top of them.
SegmentInPlace(j) ==
    LET p == in.phdrs[j] IN
    \A k \in 0 .. p.memsz - 1 :
        LET a == p.vaddr + k IN
        \/ a >= EspBase
        \/ \E l \in Segs : l > j /\ Covers(in.phdrs[l], a)
        \/ mem[a] = LoadedWord(p, k)

\* A segment longer in the file than in memory may run past the end of memory;
\* the chunk that does is dropped whole.
PastEnd(p) == p.vaddr + p.filesz > MemTop

\* When load_elf returns, every segment is in memory: its file contents, and
\* behind them zeros, whatever the order and overlap of the segments.
ImageLoaded ==
    pc = "chunk" => \A j \in Segs : PastEnd(in.phdrs[j]) \/ SegmentInPlace(j)

\* The program and the TLS block leave room for the stack.
RoomForStack == g_brk <= esp

\* Value of auxiliary vector entry t, read as the C library does: pairs after
\* the two null words, up to AT_NULL.
AuxAt == esp + mem[esp][2] + 3
AuxVal(t) ==
    LET k == CHOOSE k \in 0 .. AuxEntries - 1 : mem[AuxAt + 2 * k] = <<"a_type", t>>
    IN  mem[AuxAt + 2 * k + 1][2]

\* The C library's startup finds what the ABI promises it when it reads up
\* from an aligned ESP: argc, pointers to the intact argument strings, two
\* terminators, and an auxiliary vector whose AT_RANDOM points at the random
\* words and which ends with AT_NULL right below the string area.
StackBuilt ==
    pc = "run" /\ RoomForStack =>
        LET n == mem[esp][2] IN
        /\ esp % Align = 0
        /\ mem[esp] = <<"argc", guest_argc(Len(in.args))>>
        /\ \A i \in 1 .. n :
             /\ mem[esp + i][1] = "argv"
             /\ \A a \in Range(mem[esp + i][2], in.args[i]) : mem[a] = <<"str", i>>
        /\ mem[esp + n + 1] = <<"null", 0>> /\ mem[esp + n + 2] = <<"null", 0>>
        /\ mem[AuxAt + 2 * (AuxEntries - 1)] = <<"a_type", 0>>
        /\ \A k \in 0 .. RandBytes - 1 : mem[AuxVal(25) + k] = <<"rnd", k>>
        /\ AuxVal(9) = eip

\* When emulation starts the thread control block main built is whole: the
\* self pointers, the canary and the vsyscall pointer at GS:0x10 survived the
\* writes that came after them, and the heap starts above the block.
TlsReady ==
    pc = "run" /\ RoomForStack =>
        /\ mem[gs_base + 1] = <<"ptr", gs_base>> /\ mem[gs_base + 2] = <<"ptr", gs_base>>
        /\ mem[gs_base] = <<"ptr", StubAddr>> /\ mem[gs_base + 4] = <<"ptr", StubAddr>>
        /\ mem[gs_base + 5] = <<"canary", 0>>
        /\ gs_base + TlsSize <= g_brk

\* The vsyscall trampoline, written before the program is loaded, is still
\* there when emulation starts, if no segment lies on or below its page.
StubSurvives ==
    pc = "run" /\ (\A j \in Segs : in.phdrs[j].vaddr >= StubAddr + PageSize)
    => mem[StubAddr] = <<"stub", 0>>

\* Addresses at which main can place the arena of mmap2.
ArenaBoundaries == {b \in 0 .. 2 * MemTop : b = ArenaStart \/ (b > ArenaStart /\ b % ArenaGrain = 0)}

\* The arena starts above the program wherever that ends, and above the thread
\* block and the first break too, unless a boundary lies between the end of the
\* program and the end of the block: main rounds load_end up, not the break,
\* and a program that ends on a boundary is left with no room at all.  The
\* arena never starts above guest memory; a program that ends more than a
\* boundary's distance below the end of memory leaves an arena of that size at
\* least, room for the memory sys_mmap2 keeps for the stack included.
ArenaAboveBlock ==
    pc = "run" =>
        /\ ld.load_end <= g_mmap_ptr
        /\ ArenaBoundaries \cap (ld.load_end .. g_brk - 1) = {} => g_brk <= g_mmap_ptr
        /\ g_mmap_ptr <= MemTop
        /\ ld.load_end <= MemTop - ArenaGrain => g_mmap_ptr <= MemTop - ArenaGrain

\* Start-up ends, in emulation or in failure: the chunked copy of every
\* segment and the loop over the segments come to an end.
BootEnds == <>(pc \in {"run", "failed"})

-------------------------------------------------------------------------------
(* What a comment of the repository says and the code does not do. *)

\* "fake TLS block sits right above the loaded binary": setting it up leaves
\* the binary alone.
ImageIntact == pc = "run" /\ RoomForStack => \A j \in Segs : SegmentInPlace(j)
===============================================================================
