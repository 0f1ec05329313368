# A verification of fake-kernel

fake-kernel runs a statically linked 32-bit Linux program on a host that is not
Linux: it loads the ELF file into a flat block of host memory, interprets the
i386 instructions and answers `int 0x80` from a table of system calls. This
directory models it in TLA+, checks the models with TLC and proves the central
results with TLAPS. Line numbers below are those of the repository's files under
`src/src/`.

## 1. The system

| Part | Code | State it keeps | Operations |
|---|---|---|---|
| Start-up and loader | `main.c`, `loader/loader.c` | guest memory, EIP, ESP, `g_brk`, GS base, `g_mmap_ptr` | write the trampoline, check the header, clear and copy each segment, build the stack, build the thread block, place the arena |
| Guest memory | `mem/mem.c` | one `calloc`ed block | bounds check, 8/16/32-bit reads and writes, `mem_copy_in`, `guest_to_host` |
| Emulation loop and decoder | `cpu/cpu.c`, `cpu/ops.c` | EIP, `halted`, `g_operand_size_16`, `g_seg_override`, `g_gs_base` | fetch, dispatch over 256 handlers, prefix handlers, `parse_modrm`, `resolve_rm_addr` |
| Integer instructions | `cpu/ops.c` | registers, EFLAGS | ADD ... CMPXCHG, the 80/81/83 groups, shifts, MUL/DIV, Jcc/SETcc/CMOVcc |
| String instructions | `cpu/ops.c` | ESI, EDI, ECX, memory, flags | MOVS, STOS, SCAS, CMPS, REP, REPNE |
| Call stack | `cpu/ops.c` | ESP, EBP, EIP, memory | PUSH, POP, CALL, RET, LEAVE |
| x87 | `cpu/ops.c` | `fpu_stack`, `fpu_top`, memory, AX | D9, DB, DD, DF: loads, stores, FXCH, arithmetic, FNSTSW |
| MMX and SSE | `cpu/ops.c` | `mmx_regs`, `xmm_regs`, memory | moves, unpacks, shuffles, PCMPEQB, PMOVMSKB, PXOR |
| CPUID | `cpu/ops.c` | EAX to EDX | a constant table |
| System call dispatch | `syscall/syscall.c` | EAX | argument passing, `_llseek`, errno |
| Guest address space | `syscall/backend_win32.c` | `g_brk`, `g_mmap_ptr`, memory | brk, mmap2, munmap, mprotect |
| File descriptors | `syscall/backend_win32.c` | `fd_table[256]`, host handles | open, openat, close, read, write, writev, lseek, fstat64 |
| Signals, thread area, identity | `syscall/backend_win32.c` | `sigaction` table, mask, GS base | rt_sigaction, rt_sigprocmask, set_thread_area, set_tid_address, uname, ... |

Interactions. `main` runs the loader, hands over memory and registers and calls
`emulate`. Handlers call `mem.c` for every guest access and `handle_syscall` for
`int 0x80`; system calls change CPU state (EAX, the GS base, `halted`) and guest
memory behind the CPU's back. Prefix handlers call `execute_opcode` from inside
themselves and talk to the handler they wrap through two globals.

Everything runs in one thread, no signal is delivered and nothing is persisted,
so there is no interleaving of threads and no recovery. What is hard here is
different: long sequences of legal calls (brk and mmap2 sharing one address
space, descriptors reused, prefixes nested), 32-bit arithmetic at its edges,
globals that must be undone, order of writes that overlap, calls of which one
part fails, and loops that must end. `PROJECT.json` lists these places under
"hazards", each at its line with the properties that watch it.

What makes each part correct:

- address space: nothing is handed out twice, nothing leaves guest memory,
  nothing the guest stored is lost;
- descriptors: the table and the host agree, seeks and transfers report what
  they did;
- start-up: image, stack, thread block and trampoline are all in place at the
  first instruction, and start-up ends;
- integer flags: a branch goes the way of the numbers compared, a carry chain
  computes the multi-word sum;
- shifts, products, quotients: instructions used in series (a shift of several
  words, a long division, a product divided again) give the numbers they should;
- call stack: what is pushed stays until it is popped, and a call comes back with
  ESP and EBP as they were;
- decoder: a prefix acts on its own instruction only, an operand is where its
  encoding says, and the decoder stays in step with the encoding;
- string instructions: only the destination changes, the result is what the
  i386 leaves, loops end;
- other system calls: the signal table holds what was installed, and a call
  writes in the buffers it was given and nowhere else;
- x87: `fpu_stack` and `fpu_top` behave as the manual's stack of ST(i);
- MMX and SSE: every byte and word ends up in the lane it belongs in.

## 2. Modules

| Module | Models | Main actions |
|---|---|---|
| `GuestMemoryPromise` | abstract specification: what brk and mmap2 promise a C library | `Extend`, `Grant`, `Crash`, `Afterwards` |
| `AddressSpace` | `sys_brk`, `sys_mmap2`, `sys_munmap`, `sys_mprotect` | one per call, `GuestStore` for the guest |
| `ProcessMemory` | `PageSize`, and `g_brk` and `g_mmap_ptr`, which start-up sets and the calls move | state only |
| `ErrorNumbers` | the errno values of the calls | constants only |
| `AddressSpaceProofs` | theorems on `AddressSpace` and `Boot` | |
| `FdTable` | `fd_table` and its calls, `_llseek` | one per call |
| `StackLayout` | arithmetic of the initial stack in `load_elf` | operators only |
| `Boot` | `main` and `load_elf` up to the first instruction | one per step, every failure exit |
| `Flags` | the operand widths, EFLAGS and the flag helpers of `ops.c` | operators only |
| `Alu` | integer handlers, conditions | one per handler or group subcode |
| `AluProofs` | theorems on `Alu` and `WideOps` | |
| `WideOps` | shifts, rotates, SHLD, CDQ, MUL, IMUL, DIV, IDIV | one per group or subcode |
| `CallStack` | PUSH, POP, CALL, RET, LEAVE, jumps, group FF | one per handler or subcode |
| `Decode` | `emulate`, `execute_opcode`, prefixes, `parse_modrm`, operand resolution | prefix, handler, resolve, return |
| `GuestMemory` | accessors of `mem.c` | operators only |
| `StringOps` | string handlers, one action per iteration | `Move`, `Store`, `Scan`, `Compare`, `Exhausted` |
| `Syscalls` | `dispatch_syscall` and the calls not in `AddressSpace` or `FdTable` | one per call, `GuestStore` for the guest |
| `FpuManual` | abstract specification: the stack of ST(i) of the processor manual | `LoadStep`, `StoreStep`, `RegisterStep`, `OtherRegisterStep` |
| `FpuData` | number formats and memory of the x87 instructions | operators only |
| `FpuStack` | D9, DB, DD and DF | one per instruction |
| `Simd` | the MMX and SSE handlers | one per handler |
| `SyscallsProofs` | theorems on `Syscalls` and `FdTable` | |
| `DecodeProofs`, `CallStackProofs`, `StringOpsProofs`, `FpuStackProofs`, `SimdProofs` | theorems on the module each is named after | |
| `MC*` | the instances TLC checks | |

`Boot` extends `StackLayout` and `ProcessMemory`; `AddressSpace` extends
`ProcessMemory` and `ErrorNumbers`; `FdTable` and `Syscalls` extend `ErrorNumbers`;
`Alu` and `WideOps` extend `Flags`; `StringOps`, `CallStack` and `Simd` extend
`GuestMemory`; `FpuStack` and `FpuManual` extend `FpuData`. Where one module holds the
theorems of two components, the second has its names prefixed (`BootSpec`,
`WideSpec`, `FdSpec`). `AddressSpace` instantiates `GuestMemoryPromise`, and `FpuStack`
instantiates `FpuManual`, each with a refinement mapping.
Definitions keep the names of the C functions; "map" in `PROJECT.json` gives the
lines each one stands for. Definitions called "Mutated form of ..." are the same
code with one plausible mistake in it; each shows that a property notices it.

### AddressSpace

`g_brk` and `g_mmap_ptr` are the code's variables. `maps` remembers what every
successful mmap2 handed out, `stored` the bytes that still hold what the guest
stored last. Sums the code makes in `uint32_t` are taken modulo `WordMod`; sums
it makes after a cast to `size_t` are not, so the page rounding and the arena
bound wrap exactly where the code's do. `alive` becomes false when the final
`memset` runs past the block, which `guest_to_host` does not prevent (it checks
one byte). `sys_munmap` stands for `sys_mprotect` too: both do nothing.

`Layouts` is where `main` may leave the first break and the arena. For a program that
ends less than 16 MB below the end of memory `main.c:77-78` puts the arena at the end
of memory itself, with no room in it (`Room` is false). A request whose `uint32_t` end
wraps then passes the bound, moves `g_mmap_ptr` to a low address and fails with
EFAULT, and later calls hand out and zero low memory. `ArenaKept` says that this has
not happened; the properties are claimed as long as it holds, which is for good
where there is room, and TLC's counterexample to `MappingsAboveBase` (section 3) is what
happens else.

### FdTable

The POSIX branch of the backend. The host is external: any call may fail, reads
and writes may be short, an opened file gets any handle that is not open.
Positions are the host's; a write through a handle opened with O_APPEND starts at the
end of the file, which others may have moved, so at any position. Standard streams
have no position and refuse to seek, as terminals and pipes do. Guest pointers are
inside guest memory or not; what read, fstat64 and `_llseek` store through them is in
`Syscalls`. A writev keeps the code's order of checks per buffer, its habit of
forgetting what it wrote when a later buffer fails, and its `int32_t` sum.

### Boot and StackLayout

Memory is a function from word addresses to tagged cells, so a property can say
which word of the file, string, or auxiliary vector entry a cell holds. The unit
is a 32-bit word where the code's is a byte: every address involved is a multiple
of four or rounded to one, except the lengths of segments and strings, which are
counted in words. Reads of the file may fail at any point; a file that is too
short makes them fail. `mem_copy_in` drops a chunk that does not fit, as in the
code, which matters when `p_filesz > p_memsz`. The `uint32_t` destination of the
copy does not wrap in the model: that takes a file of nearly 4 GB.

`BootAssumption` is about the sizes in `main.c` (the thread block fits in a page, the
trampoline is page aligned and above a block at address 0, memory ends on a page and on
an arena boundary), `InputAssumption` about a
run: header fields are numbers, argument strings have their terminator, and the
stack ends above the trampoline's page. The last is the host's doing: its limit on a
command line is far below the 512 MB between the two.

### Alu

The state is the five flags the code keeps. Operands are arbitrary (they come
from registers and memory, which can hold anything), and bitwise operations are
modelled by their result. Widths are constants: `Byte`, `Half`, `Long` stand for
2^8, 2^16, 2^32. The helpers test the top bit of `Long` whatever the operand's
width, as the code tests bit 31. Two history variables give the flags a meaning
to be compared with: `cmp`, the operands of the comparison the flags come from,
and `chain`, the multi-word addition or subtraction whose carry CF holds.
`Taken` covers twelve conditions; JO, JNO, JP and JNP read one flag that no
comparison of numbers is about. AND, OR, XOR and TEST each have an action of their
own over a common `op_logic`; some handlers of XOR and TEST leave CF alone.

### WideOps

EAX, EDX and the flags; a long operand is EAX, a byte operand AL, and a second
operand is any value. `hist` is history: the series of instructions whose joint
result the registers hold (shifts of one kind, SHLD and SHL by the same counts, a
division word by word, a product, CDQ and IDIV). Two shifts are undefined in C: a long rotated by zero shifts by 32, where
every result the hosts can give leads to the same rotated value, and a byte rotated
by more than 8 shifts by a negative count, which gives 0 on them. A quotient that
does not fit is cut as the code cuts it, a zero divisor halts the CPU or is skipped
as the subcode does, and where the smallest 64-bit number is divided by -1 the host
either traps (status "died") or wraps round. `Pow2` and `Or` are recursive functions
over the bits.

### CallStack

ESP, EBP, EAX, EIP and a byte memory. ESP may be anywhere, outside memory and
unaligned too, since a program can load anything into it; pushes outside memory are
dropped and pops give zero, as `mem.c` has it. `shadow` is history: the set of words
pushed and still at or above ESP, with the registers as they were; `left` and `back`
remember what the last instruction took. A Jcc may go either way: which way is
`Alu`'s subject.

### Decode

`prefixes` is the stack of C activations of prefix handlers. The entries of the tables
are represented by fifteen kinds, told apart by how often the handler calls
`resolve_rm_addr` and what immediate or branch offset it takes; LEA, the direct
addresses of A1 to A3 and the string handlers with a source at ESI are kinds of their
own. `Operands` is a set of ModRM encodings; `mrm` is what `parse_modrm` makes of one,
`Address` what `resolve_rm_addr` computes from it. The references they are compared
with are written from the encoding alone: `Effective` for the address,
`OperandBytes`, `ShortOperandBytes` (under the address size prefix) and `Encoded` for
the length, `SegmentOf` for the segment (none for LEA). `did` records what the running
instruction did; it is cleared when the instruction returns to the loop. That C
functions return is not modelled as a property.

### GuestMemory and StringOps

Memory is bytes; a dword is `WordBytes` bytes and is accessed whole or not at
all. `Value` puts the bytes together from the top one down, `Shifted` is the code's
`val >> 8k`; both are recursive functions over the bytes of a word. Pointers wrap at `Addresses`. The direction flag does not exist in the code,
so strings only go up. A behaviour is one instruction from any registers.

### Syscalls

Memory is 32-bit words, and buffers are word aligned. `guest_to_host` checks the
first byte of a buffer only; a call that then runs past the end of guest memory
leaves status "undefined", after which nothing is claimed. `installed`, `promised`
and `bufs` are history: the action each signal was last given, the words a call
left for the guest that nothing may have overwritten since, and the buffers the
last call was given. `sys_set_thread_area` reads the descriptor again after each of
its writes, as the code does, so a descriptor that lies across the thread block is
part of the model. Of the calls on descriptors, `llseek_result`, `read_buffer` and
`fstat64_buffer` are the part that writes guest memory: the position and a zero, what
the host read, and a buffer that is cleared before the host may fail.

### FpuData, FpuManual and FpuStack

A value is a double in two words; integers and floats are one word or half of one.
Which double an integer and a float convert to are two constants, `OfInt` and `Widen`,
arbitrary functions; converting back gives an integer or float with that double where
there is one and any result else, as rounding and C's undefined conversions may.
FABS, FYL2X, FPREM and the like give one of `Results`. `FpuManual` has no physical
registers: ST(i) is entry i of a sequence, and TOP counts down as values are pushed.
It has the instructions the manual defines, those without a working handler too
(`OtherRegisterStep`: FST ST(i), FPATAN, FYL2XP1, FPTAN, FXTRACT, FSINCOS, FDECSTP,
FPREM1, FSQRT, FCOS). `insn` names the instruction in both, so the refinement cannot
match a load by a store or take an ignored FPTAN for an instruction without effect.
The instructions the handlers accept without carrying them out are `NotCarriedOut`,
and their steps are the only ones `ImplementsManual` leaves out: those of
`OtherRegisterStep`, FLDENV, FLDCW, FNSTENV, FCMOVcc, FINIT, FRSTOR, FSAVE, the 80-bit
FLD and FSTP, FNSTSW m16, and those at which the emulator stops.

### Simd

A 64-bit value is eight byte lanes; an XMM register is two of those. The history
variables state the two uses: `spread`, `found` and `scanned` follow the byte scan of
strlen and memchr (a character brought into every lane, compared, masked), `want` and
`image` give the words each move should have brought to each XMM register and to
memory. The two register files share only memory, so a behaviour uses one of them.
`Pow2` and `Xor` are recursive functions over the bits of a byte.

## 3. What TLC checks

Runs that pass:

| Run | Instance | Shows |
|---|---|---|
| `address_space` | 6-bit addresses, 28 bytes, pages of 4, three layouts | As long as `ArenaKept`: `ArenaDisjoint`: arena mappings never overlap or leave the arena. `StoresSurvive`: no call loses a stored byte while the heap is below the arena and MAP_FIXED is not used. `KeepsPromise`: the calls implement `GuestMemoryPromise`. |
| `fd_table` | two files besides the streams, 2-bit words | `HandlesExact`: no handle is shared, lost or left open, streams stay. `SeekHonest`: seeks that fit in 31 bits go where they say. `TransferAccounted`: the counts of successful calls are the bytes moved, from the position or, for a file that appends, from its end, when their sum fits in 31 bits. |
| `boot` | eleven program header tables, two file sizes, three argument lists | `ImageLoaded`: every segment is in memory when `load_elf` returns, except one whose file contents run past the end of memory. `StackBuilt`, `TlsReady`, `StubSurvives`: stack, thread block and trampoline are in place at the first instruction. `ArenaAboveBlock`: the arena is above program, thread block and break, unless an arena boundary lies between the end of the program and the end of the block; it never starts above guest memory, nor in the last 16 MB when the program ends below them. `BootEnds`: start-up ends. |
| `alu` | all operands of 2, 3 and 4 bits, chains of three words | `CompareBranch`: conditions go the way of the numbers. `ChainExact`: CF is the carry of the multi-word sum or difference. |
| `wide` | 5-bit longs, 2-bit bytes, four instructions | `ShiftsCompose`: counts add up and CF is the last bit out. `PairShift`: SHLD and SHL shift EDX:EAX. `LongDivision`: DIV by DIV divides a long number. `ProductsUndone`: a product is exact and divides back. `SignedDivision`: CDQ and IDIV divide as C does. |
| `call_stack` | 10 bytes of 16 addresses, six instructions | `StackKept`: what is pushed stays. `FramesRestored`: a return restores EIP, ESP and, after LEAVE, EBP. `EspRoundTrip`: PUSH ESP and POP ESP undo each other. |
| `decode` | up to three prefixes, two GS bases, every shape of ModRM operand | `PrefixScoped`: prefixes act on their own instruction only. `FirstAccess`: an operand is where its encoding says, but under 16-bit addressing, and with a GS base before LEA, MOVS and CMPS. `InStep`: the next opcode is read where the last instruction ends, but under 16-bit addressing, and with 66 before an imm32 or rel32. |
| `string_ops` | five bytes of memory, eight addresses | `OnlyDestination`, `CopyExact`, `RegistersExact`, `ScanExact`: what REP leaves in memory and registers. `RepEnds`: loops end. |
| `syscalls` | 12 words of 16 addresses, four calls or stores | `ActionsInstalled`: the table holds the action last installed. `ResultsKept`: what a call leaves in memory stays. `OnlyBuffers`: a call writes only where it was told to. |
| `fpu` | three registers, two words, four instructions | `ImplementsManual`: every instruction the handlers carry out is a step of `FpuManual`. |
| `simd` | 20 bytes of 64 addresses, six MMX or three SSE instructions | `ScanMask`: the mask of a byte scan is exactly the lanes with the character. `MovesExact`: every word is where the moves and shuffles should have brought it. |

`TypeOK` is checked where a proof rests on it or the state can leave its type by
arithmetic (`address_space`, `alu`, `call_stack`). In the other modules it is part of
the invariant the proofs are about.

One run fails as expected, because the code does not do what its comment says:
in `heap_below_arena`, `sys_brk` lets the heap grow through the mmap arena, which
"lives above the brk heap" (`backend_win32.c:107`).

### Known divergences

Nine more comments say something the code does not do. Each has a definition in its
module that states what the comment says and that TLC refutes when it is added as an
INVARIANT (`AllCarriedOut` as a PROPERTY) to the module's configuration:

| Definition | Comment | Code |
|---|---|---|
| `AddressSpace.MappingsAboveBase` | `backend_win32.c:294`, "mmap2 allocates out of the arena above the heap" | `backend_win32.c:331-345`: where the arena starts at the end of memory, a request whose end wraps moves the pointer before it fails with EFAULT, and the next one hands out low memory |
| `FdTable.LlseekExact` | `syscall.c:123`, "if offset_high is non-zero we can't handle it, just fail" | `syscall.c:128`: an offset_high of 0xFFFFFFFF is ignored, and a low word of 2^31 or more is read as negative |
| `Boot.ImageIntact` | `main.c:50`, "fake TLS block sits right above the loaded binary, before the heap" | `main.c:64`: the loop that clears below the block clears the last 0x3F8 bytes below the page-rounded end of the program, in which its last segment may lie |
| `Alu.GroupChainExact` | `ops.c:1520`, "ADC", and 1525, "SBB" | the immediate groups 80 and 83 lose carries |
| `Alu.ByteSigned` | `ops.c:72`, "overflow if signs of operands differ and result sign differs from a" | `ops.c:73`: SF and OF of byte operations come from bit 31, so signed conditions after byte comparisons are wrong |
| `Decode.SameOperand` | `ops.c:1393`, "GS segment override prefix" | `ops.c:157`: the first resolution clears the override, so a read-modify-write instruction reads through GS and writes to the flat address |
| `Decode.SegmentReaches` | `ops.c:1393`, "GS segment override prefix" | `ops.c:1856`: LEA adds the GS base to an offset; `ops.c:1928`: MOVS and CMPS read their source without it |
| `Decode.AddressSizeHonoured` | `ops.c:1413`, "address size override prefix" | `ops.c:1414`: the handler only runs the next opcode, which is decoded with 32-bit addressing |
| `FpuStack.AllCarriedOut` | `ops.c:2477`, "F2XM1, FYL2X, FPTAN etc", and the other names of instructions beside their handlers | `ops.c:2486-2493`, 2515, 2560-2571, 2625, 2680: the handlers do nothing |

Further divergences, from the processor's manual or from what a C library would
expect, are part of the models, and the passing properties are worded so as not to
claim them:

- memory: MAP_FIXED may map outside the arena and over the heap
  (`backend_win32.c:296`); a length within a page of 2^32 is rounded to 0 and
  succeeds (302-303); an arena at the end of memory (`main.c:77`) loses its pointer, as
  above;
- start-up: the clearing loop also zeroes the malloc chunk header main has just
  written (`main.c:64`); a program that ends at an arena boundary, or within a block
  of one, has its block and heap in the arena (`main.c:77`); ESP is aligned to 16,
  where the comment at `loader.c:258` speaks of another alignment;
- flags: CF or OF are stale after some logical operations; a shift by zero clears CF;
- wide operations: a byte rotated by more than 8 loses bits; a zero divisor is
  skipped by DIV r/m32; quotients that do not fit are cut, and in DIV r/m8 run into
  the remainder;
- stack: PUSH ESP stores the decremented pointer and POP ESP adds to the value
  popped, each unlike the i386; together they agree (`EspRoundTrip`);
- decoder: the 66 prefix does not shorten the fixed 32-bit immediates and branch
  offsets (`ops.c:2011`, 2814, 2827, 498): of the handlers only 81, 83, 89, 8B and C9
  look at it; of several segment prefixes in one instruction, which the manual
  rules out, GS wins;
- descriptors: seek positions past 2^31 look like errors; a writev that fails may have
  written; one that writes 2^31 bytes or more returns another number (the sum is an
  `int32_t`, `backend_win32.c:484`);
- system calls: rt_sigaction with overlapping buffers installs what it has just
  written there; set_thread_area with its descriptor across the thread block reads
  back its own writes;
- x87: the instructions of `NotCarriedOut`; of these FNSTSW m16 stores 0, FLD m80
  pushes 0 and FSTP m80 pops without a store; FRNDINT computes a square root and FSIN
  rounds (`ops.c:2498-2517`), which `Results` does not tell apart;
- SSE: MOVSD between registers clears the high half; the MMX handlers ignore a 66
  prefix and act on MMX registers.

### Bounds and why they are enough

- `address_space`: the lengths are zero, under a page, over a page, one whose end
  wraps and one that wraps while it is rounded; the arena holds three pages, so it
  fills up; the breaks lie below, inside and past the arena and past memory. In two
  more layouts the arena starts at the end of memory, with the first break inside
  memory and past it.
- `fd_table`: two free slots are enough for reuse, for two open files and for a
  full table. With `Half` 2, positions from 2 to 4 do not fit in the signed result, the
  sum of two buffers does not fit either, and that of four wraps to zero.
- `boot`: the tables have adjacent, overlapping, reordered, empty, too large and
  truncated segments, segments ending on a page boundary and not, and one that
  holds more in the file than in memory. Programs end
  below the arena's fixed start, on it, above it, and so close to the end of memory that
  the arena starts there. Chunks of three words make every copy take
  several rounds. `MaxArgs` 2 is exceeded by one list. The theorems hold for every
  header table and argument list that satisfies `InputAssumption`.
- `alu`: the widths keep the ratios the code relies on (each at least twice the
  narrower, all even); all pairs of operands are tried. The theorems remove the
  bound.
- `wide`: counts go past both widths and past the mask; the 5-bit long leaves a bit
  of EAX outside AX, so that a byte product or quotient that disturbs it is noticed.
  Four instructions are two steps of a shift of EDX:EAX, or a division of three words
  with a load between. The counts 0, 2, 3 and 6 are nothing, part of a word, more than
  a byte, and more than a long, which the mask cuts. The theorems remove the bound.
- `call_stack`: memory has room for four words below the top of the stack and one
  above it; ESP passes both ends of memory and of the address space. Six instructions
  are a call, a saved frame with something left on the stack, LEAVE and RET.
- `decode`: three prefixes are each of the three the i386 heeds, or one of them repeated
  around another. Every
  mod is paired with a plain base, EBP and the SIB escape, SIB bytes with and without
  base and index, and displacements that are negative as a byte or wrap the address.
- `string_ops`: counts up to 4 on 5 bytes of memory give overlaps in both
  directions, copies that leave memory and pointers that wrap.
- `syscalls`: the pointers are equal, overlapping, apart, across the end of memory
  and outside it; one descriptor lies across its own thread block. Signal numbers
  go from 0 to `SigMax`. Four steps are an installation, a call that overwrites or
  fails, a store and another installation.
- `fpu`: three registers wrap round in three pushes; two addresses are outside memory,
  and of a double at the last one the second word is the first of memory. Two words
  have the same double as an integer and as a float, the others different ones, and
  some doubles are neither.
- `simd`: the longest scan takes six instructions. Sixteen bytes reach past the end
  of memory in one operand and wrap to the start in the other, and the two overlap.
  The theorems remove the bound.

Deadlock is checked in every run: stopping (`Dead`, `Stopped`, `Finished`) is an
explicit stuttering action.

### Fairness

`Boot` assumes weak fairness of `BootNext`, `StringOps` of `Next`. Each is a single thread
executing straight-line code and loops with no blocking primitive, so a step that
can be made is made. The other modules assume none: nothing says which instruction or
call comes next or whether one comes at all.

## 4. What is proved

`AddressSpaceProofs`, for every size of memory, page, reserve, every layout with the
arena in memory or at its end, wherever the first break is, and every set of arguments:

- `TypeCorrect`: `Spec => []TypeOK`;
- `ArenaSafe`: `Spec => []ArenaDisjoint`;
- `DataSafe`: `Spec => StoresSurvive`;
- `Implements`: `Spec => KeepsPromise`.

They rest on `InductiveInvariant`. `ArenaDisjoint` alone is not inductive: a new
mapping is apart from the old ones only because all of those end at or below
`g_mmap_ptr` (`MapsBelowPtr`), and the wrapping comparison of the arena bound is
sound only because, where there is room, the pointer itself is never past the reserve
while the emulator lives (`PtrInArena`): by `ArenaCheck`, a request that passes the bound either fits
below the reserve or wrapped, and one that wrapped is longer than the rest of
guest memory, so that the zeroing kills the emulator before anything is returned.
Without room nothing is mapped before the request that loses the pointer.
`StoredOwned` (what is stored lies in memory the guest was given) makes
`StoresSurvive` follow: neither the header nor a new mapping lies in owned bytes.
Assumptions: `SizesAssumption` (in particular `MemSize < WordMod`),
`LayoutAssumption`, `InputsAssumption`. The layout assumption, an arena not above guest
memory, is what `ArenaPlaced` below proves of start-up. `ArenaPlaced` also shows when
there is room: a program that ends 16 MB or more below the end of memory leaves an
arena of 16 MB or more, of which the reserve for the stack is 1 MB.

The same module on `Boot`, for every program header table, file, argument list, size
of memory, page, chunk and thread block:

- `LoaderPlacesSegments`: `BootSpec => []ImageLoaded`;
- `StackAsPromised`: `BootSpec => []StackBuilt`;
- `TlsBlockWhole`: `BootSpec => []TlsReady`;
- `TrampolineSurvives`: `BootSpec => []StubSurvives`;
- `ArenaPlaced`: `BootSpec => []ArenaAboveBlock`.

They rest on `BootInvariant`. `Copying` ties the loader's locals to the segment being
copied, `EndKnown` bounds the end of the program, `Started` says which register is
already set at which step. `ImageSoFar` is the loop's part of `ImageLoaded`: a
segment is in place but for the words later segments cover, and of the one being
copied the chunks so far are in place. `StackWords` follows header block, random
bytes and strings of the initial stack: after the thread block is written they are
only claimed above it. `TlsWords` is the thread block before and after the second
pass over it. The layout argument is that header block, random bytes and strings lie
apart for every number and length of arguments. Assumptions: `StackAssumption`,
`BootAssumption`, `InputAssumption`.

The proof showed one case the runs had not: a segment with more in the file than in
memory may run past the end of memory, and the whole chunk that does is dropped, the
words that would have fitted too. `ImageLoaded` leaves out such segments (`PastEnd`).

`AluProofs`, for every width with the parity and ratio of 8, 16 and 32 bits and
every set of operands:

- `TypeCorrect`: `Spec => []TypeOK`;
- `Branches`: `Spec => []CompareBranch`;
- `Chains`: `Spec => []ChainExact`, for chains of any length up to `MaxWords`,
  which is any natural number.

The conjunction of the three is inductive. The arithmetic is in a few lemmas:
`AddWord`, `SubWord`, `SbbWord` (the carry the code computes is the carry of the
word), `SignedCompare` (SF # OF is signed less-than), `Distribute` (a word's carry
moves up the chain). Every handler then has one step lemma. Assumptions:
`WidthAssumption`, `ArgsAssumption`.

The same module on `WideOps`, for every width of bytes and longs, every set of
operands and counts and series of any length:

- `WideTypes`: `WideSpec => []WideTypeOK`;
- `ShiftsAddUp`: `WideSpec => []ShiftsCompose`;
- `PairsShift`: `WideSpec => []PairShift`;
- `DivisionExact`: `WideSpec => []LongDivision`;
- `DivisionUndoes`: `WideSpec => []ProductsUndone`;
- `SignedExact`: `WideSpec => []SignedDivision`.

The invariant `WideInv` is that the registers keep their width and hold the result of
the series `hist` tells of (`Series`, one case per kind of series). For shifts the
argument is bit by bit: `Endless` is the operand continued without end as the shift
continues it (zeros, copies of the sign, the operand again). `ResultBits` and
`CarryBits` say that one instruction shows this sequence moved by its count and the
last bit out in CF, `EndlessTwice` that two moves are one, `ShldForm` that SHLD is
arithmetic on EDX:EAX. For division, `DivWord` is one step of the school method,
whose quotient fits because the remainder is below the divisor; `TruncForm` is
division that truncates, `CdqValue` the number CDQ spreads over both registers,
`OrForm` that the OR of AL and AH in the byte division is a sum, `ProductFits` that
dividing a product gives back the factor, which fits. Below these are `Quotient`
(division is unique), `PowSum` and `BitsOfParts`. Assumptions: `WidthAssumption`,
`WideAssumption` (a long is 2^LongBits, a byte 2^ByteBits, a half two bytes).

On `FdTable`, `SyscallsProofs`, for every table size, set of handles, word width, file
size and list of buffers:

- `HandlesAgree`: `FdSpec => []HandlesExact`;
- `SeeksHonest`: `FdSpec => SeekHonest`;
- `TransfersAccounted`: `FdSpec => TransferAccounted`.

`HandlesExact` is inductive once the table and the handles have their types
(`FdShape`): open takes a handle that is not open, close gives up the one of the slot
it clears and leaves the streams alone. The two action properties are proved step
by step: `CastExact` is what the casts between the guest's words and the host's
offsets keep, `StopInRange` where writev leaves its loop, so that the total it
returns is the sum of what the host took, wrapped to `int32_t`. Assumption: `FdAssumption`.

`DecodeProofs`, for any depth of prefixes, register contents, set of ModRM operands
and width of bytes and addresses:

- `PrefixesScoped`: `Spec => []PrefixScoped`;
- `OperandsAddressed`: `Spec => []FirstAccess`;
- `DecoderInStep`: `Spec => []InStep`.

Two strengthenings are needed. `Owned`: a global that is set has the handler that
set it on the stack of activations, so the last return clears it. `FirstDue`: an
operand that is not resolved yet will be resolved to the address the encoding
names, with the segment still in force, the exempted cases aside. The arithmetic is in `OperandLength`,
`ByteDisplacement` and `OperandAddress`: `parse_modrm` and `resolve_rm_addr`, which
wrap at each sum and sign-extend by a cast, agree with the encoding, which adds
signed numbers and wraps once. Assumption: `DecodeAssumption`.

`CallStackProofs`, for every memory, initial ESP, immediates, offsets, number of
instructions and width of bytes and words:

- `TypeCorrect`: `Spec => []TypeOK`;
- `WordsKept`: `Spec => []StackKept`;
- `CallsReturn`: `Spec => []FramesRestored`;
- `EspUndone`: `Spec => []EspRoundTrip`.

The invariant adds `Entries` (a word lies a word below what ESP was when it was
pushed, no two at one address, PUSH ESP stored its own address) and `Frame` (after
LEAVE of a call's frame EBP is what the return address at ESP remembers). A push
writes a whole word below ESP, and so below every word of the shadow, or ESP has
wrapped and nothing is written (`WrapDown`). `ReadBack` is that mem_read32 returns
what mem_write32 stored, `ValueSame` that words without a common byte do not
disturb each other, `PowSum` that 66 LEAVE's halves fit together. Assumptions:
`MemoryAssumption`, `CallAssumption` (the number of addresses is that of the values
of a word).

`StringOpsProofs`, for every memory, pointers and count and width of bytes, words
and addresses:

- `DestinationOnly`: `Spec => []OnlyDestination`;
- `CopiesExact`: `Spec => []CopyExact`;
- `RegistersRight`: `Spec => []RegistersExact`;
- `ScansExact`: `Spec => []ScanExact`.

The invariant is the loop's: `Progress` (the registers after any number of
iterations), `Copied` (the part of the copy that is done) and `Scanning` (no byte
equal to AL so far). `CopyStep` is the heart: the next unit of the source either
has not been written, by `OnlyDestination`, or was written d bytes before, by
`Copied`, which is why d has to be a whole number of units. Assumptions:
`MemoryAssumption`, `StringAssumption`.

The bytes of a word in both modules, and `Pow2`, `Or` and `Xor` in `WideOps` and
`Simd`, are recursive functions. That they exist, and what they compute, is proved by induction on the set of numbers for which it holds
(`Least`, `Induction`), which rests on `WFMin` and `NatLessThanWellFounded` of the
library and not on a theorem with an operator as its parameter.

On `Syscalls`, `SyscallsProofs`, for every number of signals, memory, set of pointers and number of
calls:

- `SignalTableExact`: `Spec => []ActionsInstalled`;
- `AnswersKept`: `Spec => []ResultsKept`;
- `WritesInBuffers`: `Spec => OnlyBuffers`.

The first two with the types are inductive. Assumption: `SyscallAssumption`; in
particular the vsyscall slot of a thread block is not the word of the chunk header
below it.

`FpuStackProofs`, for every number of registers, every set of values and results and
every conversion of integers and floats to doubles:

- `StackRefinesManual`: `Spec => ImplementsManual`.

The invariant is that `fpu_top` is an index and `fpu_stack` a function on the
indices. `PushRefines`, `PopRefines` and `KeptRefines` say what the refinement
mapping makes of a push, a pop and a write of one register; every instruction then
has a step. Assumptions: `FpuAssumption`, `BoundAssumption`.

`SimdProofs`, for every memory, address, immediate, number of instructions and width
of a byte:

- `TypeCorrect`: `Spec => []TypeOK`;
- `MasksExact`: `Spec => []ScanMask`;
- `MovesRight`: `Spec => []MovesExact`.

The invariant adds what the histories say of every register: `SpreadHeld` (the low
lanes hold the character as far as it has been brought) and `FoundHeld` (after
PCMPEQB the lanes with the top bit set are the lanes found). `UnpackedSpreads` is the
step that doubles the lanes, and by `XorForm` PXOR of a register with itself clears
it. For the moves, `CoversExact` is the heart: the dwords of sixteen consecutive
bytes, wrapped round the address space, do not meet, so that the four stores
of an XMM register, each dropped alone when it leaves memory, add up to the words
`image` holds (`StoreQuad`, `StoreXmm`). Assumptions: `MemoryAssumption`,
`SimdAssumption`.

Only model-checked: liveness (`BootEnds`, `RepEnds`), since liveness under fairness and
ENABLED are beyond the prover, and the expected violation and the divergences of section 3, which are counterexamples. Every other property a
run checks is a theorem. No module declares a RECURSIVE operator.

## 5. Not modelled

- The values moved by MOV, MOVZX, MOVSX, LEA, XCHG and CMOVcc: straight assignments.
  That they leave the flags alone is in `Alu`, where their operands are and how long
  they are in `Decode`.
- CPUID: a constant table.
- The values of x87 arithmetic: host doubles. `FpuStack` keeps where a result goes.
- Prefix handlers nested without bound: each is a C call, and a program of nothing but
  prefixes exhausts the host's stack; `MaxPrefixes` bounds them in the run.
- The Win32 branch of the backend: the same control around other host calls.
- Trace output, the watchpoint and messages: they feed nothing back.
- Signals are never delivered and there is one thread, so there is nothing to model
  of either beyond the table and the descriptor.

## 6. Plan

Done, in this order: `AddressSpace` with its promise and proofs, `FdTable`,
`StackLayout` and `Boot`, `Alu` and its proofs, `Decode`, `GuestMemory` and
`StringOps`; then `Flags` and `WideOps`, `CallStack`, `Syscalls`, the x87 modules,
`Simd`, addressing modes in `Decode` and the place of the arena in `Boot`.

Then the proofs, in this order: `FdTable`, `Decode`, `Syscalls`, `FpuStack`,
`StringOps` and `CallStack`; then `Boot`, `WideOps` and `Simd`, with which every
safety property of the runs is proved.

What could follow:

1. `Boot` and `AddressSpace` as one behaviour: they share `g_brk` and `g_mmap_ptr`,
   and `ArenaPlaced` is the link between them.
2. The values moved by MOV, MOVZX, MOVSX, XCHG and CMOVcc, on the memory of
   `GuestMemory`.
3. Strings and segments of `Boot` counted in bytes.
4. The Win32 branch of the backend as a second refinement of the same calls.
