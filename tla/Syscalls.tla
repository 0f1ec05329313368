------------------------------- MODULE Syscalls -------------------------------
(***************************************************************************)
(* dispatch_syscall (syscall.c) and the calls of backend_win32.c that      *)
(* AddressSpace and FdTable do not model: the signal table, the thread     *)
(* area, the calls that fill a guest buffer, the ones that only return a   *)
(* constant, and the exits.  Of the calls on descriptors it has what they  *)
(* store in guest memory; what they do to the files is FdTable's.          *)
(*                                                                         *)
(* Guest memory is taken in 32-bit words, and addresses count words; the   *)
(* buffers are word aligned.  guest_to_host checks the first byte of a     *)
(* buffer only: a buffer that starts inside memory and ends outside makes  *)
(* the emulator touch host memory it does not own, after which nothing is  *)
(* said (status "undefined").                                              *)
(***************************************************************************)
EXTENDS ErrorNumbers, Sequences

CONSTANTS MemWords,             \* words of guest memory
          Addresses,            \* 2^30, the number of word addresses
          SigMax,               \* SIGMAX
          ActWords,             \* words of a LinuxSigaction
          MaskWords,            \* words of a signal mask
          UtsWords,             \* words of a LinuxUtsname
          StatWords,            \* words of a LinuxStat64
          StubSlot,             \* words from the GS base to the vsyscall slot
          Stub, ChunkSize, Noise, Text,   \* 0x1000, 0x91, 0xABABABAB, the names
          Memories,             \* initial contents
          Pointers, Lengths, Signals,     \* arguments
          Values,               \* what the guest stores
          MaxOps                \* bound: calls and stores

Word == 0 .. Addresses - 1
Memory == [0 .. MemWords - 1 -> Word]
Actions == [1 .. ActWords -> Word]

ASSUME SyscallAssumption ==
    /\ MemWords \in Nat /\ Addresses \in Nat /\ MemWords < Addresses
    /\ {SigMax, ActWords, MaskWords, UtsWords, StatWords, StubSlot, MaxOps} \subseteq Nat
    /\ StubSlot < Addresses - 2       \* the slot is not the chunk header, 16 < 2^32 - 8
    /\ {Stub, ChunkSize, Noise, Text} \cup Values \cup Pointers \subseteq Word
    /\ Memories \subseteq Memory /\ Lengths \subseteq Nat /\ Signals \subseteq Int

VARIABLES mem,
          eax,            \* the result of the last call
          g_sigactions,
          g_gs_base,
          status,         \* running, exited or undefined
          installed,      \* history: the action last installed for each signal, or {}
          promised,       \* history: <<address, word>> that calls left for the guest and
                          \* that nothing was given to write over since
          bufs,           \* history: the addresses the last step was given to write
          ops             \* steps so far

vars == <<mem, eax, g_sigactions, g_gs_base, status, installed, promised, bufs, ops>>

guest_to_host(addr) == addr < MemWords       \* not NULL
Fits(addr, n) == addr + n <= MemWords
Region(addr, n) == addr .. addr + n - 1

\* mem_write32 drops what is outside memory.
mem_write32(m, addr, v) == IF addr < MemWords THEN [m EXCEPT ![addr] = v] ELSE m

\* Mutated form of Filled: one word too many.
FilledPast(m, at, v) == [x \in DOMAIN m |-> IF x \in at \/ x - 1 \in at THEN v ELSE m[x]]

Filled(m, at, v) == [x \in DOMAIN m |-> IF x \in at THEN v ELSE m[x]]
Copied(m, addr, act) ==
    [x \in DOMAIN m |-> IF x \in Region(addr, ActWords) THEN act[x - addr + 1] ELSE m[x]]

\* The action the guest has prepared at addr.
ActionAt(m, addr) == [i \in 1 .. ActWords |-> m[addr + i - 1]]

-------------------------------------------------------------------------------
(* A call returns r, was given the addresses b to write, and leaves w there.  *)

Returns(r, b, w) ==
    /\ eax' = r /\ bufs' = b
    /\ promised' = {p \in promised : p[1] \notin b} \cup {p \in w : p[1] < MemWords}

Each(b, v) == {<<x, v>> : x \in b}

KeepSignals == UNCHANGED <<g_sigactions, installed>>
Rest == KeepSignals /\ UNCHANGED <<g_gs_base, status>>

Overrun ==
    /\ status' = "undefined"
    /\ UNCHANGED <<mem, eax, g_sigactions, g_gs_base, installed, promised, bufs>>

\* A call that fills the n words at addr through guest_to_host with v.
Fills(addr, n, v, r) ==
    \/ Fits(addr, n) /\ mem' = Filled(mem, Region(addr, n), v)
       /\ Returns(r, Region(addr, n), Each(Region(addr, n), v)) /\ Rest
    \/ guest_to_host(addr) /\ ~Fits(addr, n) /\ Overrun

Refuses(r) == UNCHANGED mem /\ Returns(r, {}, {}) /\ Rest

-------------------------------------------------------------------------------
(* Signals.                                                                  *)

\* Mutated form of NewAction: the last word is not copied.
NewActionShort(m, act) == [i \in 1 .. ActWords |-> IF i < ActWords THEN m[act + i - 1] ELSE 0]

NewAction(m, act) == [i \in 1 .. ActWords |-> m[act + i - 1]]

\* The old action is written before the new one is read; what is installed when
\* the two buffers overlap is not the action the caller prepared.
sys_rt_sigaction(sig, act, oact) ==
    LET m1 == IF oact # 0 THEN Copied(mem, oact, g_sigactions[sig]) ELSE mem
        given == IF oact # 0 THEN Region(oact, ActWords) ELSE {}
        old == {<<oact + i - 1, a[i]>> : a \in installed[sig], i \in 1 .. ActWords}
        gives == IF oact # 0 THEN old ELSE {}
        apart == given \cap Region(act, ActWords) = {}
    IN
    \/ sig \notin 1 .. SigMax - 1 /\ Refuses(EINVAL)
    \/ sig \in 1 .. SigMax - 1 /\ oact # 0 /\ ~guest_to_host(oact) /\ Refuses(EFAULT)
    \/ /\ sig \in 1 .. SigMax - 1
       /\ \/ oact # 0 /\ guest_to_host(oact) /\ ~Fits(oact, ActWords)
          \/ /\ oact # 0 => Fits(oact, ActWords)
             /\ act # 0 /\ guest_to_host(act) /\ ~Fits(act, ActWords)
       /\ Overrun
    \/ /\ sig \in 1 .. SigMax - 1
       /\ oact # 0 => Fits(oact, ActWords)
       /\ mem' = m1
       /\ \/ act # 0 /\ ~guest_to_host(act) /\ Returns(EFAULT, given, gives) /\ KeepSignals
          \/ act = 0 /\ Returns(0, given, gives) /\ KeepSignals
          \/ /\ act # 0 /\ Fits(act, ActWords)
             /\ Returns(0, given, gives)
             /\ g_sigactions' = [g_sigactions EXCEPT ![sig] = NewAction(m1, act)]
             /\ installed' = [installed EXCEPT
                                ![sig] = IF apart THEN {ActionAt(mem, act)} ELSE {}]
       /\ UNCHANGED <<g_gs_base, status>>

\* No signal is ever blocked: the old mask is empty.
sys_rt_sigprocmask(oset, size) ==
    \/ oset = 0 /\ Refuses(0)
    \/ oset # 0 /\ ~guest_to_host(oset) /\ Refuses(EFAULT)
    \/ oset # 0 /\ Fills(oset, IF size < MaskWords THEN size ELSE MaskWords, 0, 0)

-------------------------------------------------------------------------------
(* Threads.                                                                  *)

\* The thread id is 1.
sys_set_tid_address(ptr) ==
    IF ptr # 0 /\ guest_to_host(ptr) THEN Fills(ptr, 1, 1, 1) ELSE Refuses(1)

\* A UserDesc starts with entry_number and base_addr, the words that are used.
Wrap(x) == x % Addresses
BaseAddr(m, desc) == m[desc + 1]
WithSlot(m, desc) == mem_write32(m, Wrap(BaseAddr(m, desc) + StubSlot), Stub)
WithPrevSize(m, desc) == mem_write32(m, Wrap(BaseAddr(m, desc) - 2), 0)

\* Mutated form of WithSize: the size is written where the previous one is.
WithSizeBelow(m, desc) == mem_write32(m, Wrap(BaseAddr(m, desc) - 2), ChunkSize)

WithSize(m, desc) == mem_write32(m, Wrap(BaseAddr(m, desc) - 1), ChunkSize)

AreaWords(base) ==
    {<<Wrap(base + StubSlot), Stub>>, <<Wrap(base - 2), 0>>, <<Wrap(base - 1), ChunkSize>>}

\* Each write reads base_addr again, after the ones before it.
sys_set_thread_area(desc) ==
    LET m1 == IF mem[desc] = Addresses - 1 THEN [mem EXCEPT ![desc] = 0] ELSE mem
        m2 == WithSlot(m1, desc)
        m3 == WithPrevSize(m2, desc)
        area == AreaWords(BaseAddr(mem, desc))
        hit == \E p \in area : p[1] = desc + 1
    IN
    \/ ~guest_to_host(desc) /\ Refuses(EFAULT)
    \/ guest_to_host(desc) /\ ~Fits(desc, 2) /\ Overrun
    \/ /\ Fits(desc, 2)
       /\ g_gs_base' = BaseAddr(m1, desc)
       /\ mem' = WithSize(m3, desc)
       /\ IF hit THEN Returns(0, DOMAIN mem, {})
          ELSE Returns(0, {desc} \cup {p[1] : p \in area}, area)
       /\ UNCHANGED status /\ KeepSignals

-------------------------------------------------------------------------------
(* What the calls on descriptors store.  The host decides what it is and     *)
(* whether they succeed.                                                     *)

FdErrors == {EBADF, EINVAL, ESPIPE, EIO}

\* _llseek stores the new position and a zero, unless it fails or the pointer
\* is NULL.
llseek_result(ptr) ==
    LET at == {ptr, Wrap(ptr + 1)} IN
    \/ \E e \in FdErrors : Refuses(e)
    \/ ptr = 0 /\ Refuses(0)
    \/ /\ ptr # 0
       /\ \E v \in Values :
            /\ mem' = mem_write32(mem_write32(mem, ptr, v), Wrap(ptr + 1), 0)
            /\ Returns(0, at, {<<ptr, v>>, <<Wrap(ptr + 1), 0>>})
       /\ Rest

\* sys_read leaves what the host read, which may be less than asked for.
read_buffer(buf, count) ==
    \/ \E e \in FdErrors \cup {0} : Refuses(e)
    \/ ~guest_to_host(buf) /\ Refuses(EFAULT)
    \/ guest_to_host(buf) /\ \E n \in 0 .. count, v \in Values : Fills(buf, n, v, n)

\* sys_fstat64 clears its buffer before it asks the host, who may fail.
fstat64_buffer(buf) ==
    \/ Refuses(EBADF)
    \/ ~guest_to_host(buf) /\ Refuses(EFAULT)
    \/ Fills(buf, StatWords, 0, EIO)
    \/ \E v \in Values : Fills(buf, StatWords, v, 0)

-------------------------------------------------------------------------------
(* The rest of the dispatcher.                                               *)

\* Text stands for the six names; the last byte of each is left as it is.
sys_uname(ebx) ==
    \/ ~guest_to_host(ebx) /\ Refuses(EFAULT)
    \/ Fills(ebx, UtsWords, Text, 0)

\* n words of v through mem_write32, unless the pointer is NULL: clock_gettime
\* (two zeros), clock_gettime64 (four), ugetrlimit (two all ones).
Words(ecx, n, v) ==
    LET at == {Wrap(ecx + i) : i \in 0 .. n - 1} IN
    \/ ecx = 0 /\ Refuses(0)
    \/ ecx # 0 /\ mem' = Filled(mem, at, v) /\ Returns(0, at, Each(at, v)) /\ Rest

clock_gettime(ecx) == Words(ecx, 2, 0)
clock_gettime64(ecx) == Words(ecx, 4, 0)
ugetrlimit(ecx) == Words(ecx, 2, Addresses - 1)

\* getrandom promises len bytes whatever the buffer.
getrandom(ebx, len) ==
    IF ebx # 0 /\ guest_to_host(ebx) THEN Fills(ebx, len, Noise, len) ELSE Refuses(len)

\* Calls that only return: the ids, those with nothing to do in one thread
\* without signals (kill, futex, rseq, prctl, madvise ...), the probes for files
\* that are not there, and everything unknown.
getpid == Refuses(1)
getuid32 == Refuses(1000)
nothing_to_do == Refuses(0)
stat64 == Refuses(ENOENT)
unimplemented == Refuses(ENOSYS)

Exits ==
    /\ status' = "exited"
    /\ UNCHANGED <<mem, eax, g_sigactions, g_gs_base, installed, promised, bufs>>

\* exit, exit_group, and tgkill with SIGABRT.
sys_exit == Exits
tgkill(sig) == IF sig = 6 THEN Exits ELSE Refuses(0)

\* The guest's own stores, between calls.
GuestStore(addr, v) ==
    /\ mem' = mem_write32(mem, addr, v)
    /\ Returns(eax, {addr}, {}) /\ Rest

-------------------------------------------------------------------------------
NoAction == [i \in 1 .. ActWords |-> 0]

Init ==
    /\ mem \in Memories
    /\ eax = 0 /\ g_gs_base = 0 /\ status = "running"
    /\ g_sigactions = [s \in 1 .. SigMax - 1 |-> NoAction]
    /\ installed = [s \in 1 .. SigMax - 1 |-> {NoAction}]
    /\ promised = {} /\ bufs = {} /\ ops = 0

SignalStep ==
    \/ \E sig \in Signals, act, oact \in Pointers : sys_rt_sigaction(sig, act, oact)
    \/ \E oset \in Pointers, size \in Lengths : sys_rt_sigprocmask(oset, size)

OtherStep ==
    \/ \E p \in Pointers :
         \/ sys_set_tid_address(p) \/ sys_set_thread_area(p) \/ sys_uname(p)
         \/ clock_gettime(p) \/ clock_gettime64(p) \/ ugetrlimit(p)
         \/ llseek_result(p) \/ fstat64_buffer(p)
         \/ \E len \in Lengths : getrandom(p, len) \/ read_buffer(p, len)
    \/ getpid \/ getuid32 \/ nothing_to_do \/ stat64 \/ unimplemented
    \/ sys_exit \/ (\E sig \in {6, 9} : tgkill(sig))

Ended == status # "running" \/ ops = MaxOps

Next ==
    \/ /\ ~Ended /\ ops' = ops + 1
       /\ \/ SignalStep \/ OtherStep
          \/ \E addr \in 0 .. MemWords - 1, v \in Values : GuestStore(addr, v)
    \/ Ended /\ UNCHANGED vars

Spec == Init /\ [][Next]_vars

-------------------------------------------------------------------------------
\* The signal table holds actions, memory words.
TypeOK ==
    /\ mem \in Memory
    /\ g_sigactions \in [1 .. SigMax - 1 -> Actions]
    /\ g_gs_base \in Word
    /\ status \in {"running", "exited", "undefined"} /\ ops \in 0 .. MaxOps

\* For every signal the table holds the action of the last rt_sigaction that
\* succeeded, as the guest had prepared it, whatever calls failed in between,
\* before or after they wrote the old action; only a call whose two buffers
\* overlap installs something else.
ActionsInstalled ==
    \A s \in 1 .. SigMax - 1 : installed[s] \subseteq {g_sigactions[s]}

\* What a call leaves in guest memory stays until the guest, or a call given
\* that address, writes there: the old action, which is the one installed
\* before even if the call then fails; the vsyscall slot and the chunk header
\* of the thread block, unless the descriptor lies across them; the clocks,
\* limits and names; positions, file contents and the status of files, the
\* zeros a failing fstat64 leaves included.
ResultsKept == \A p \in promised : mem[p[1]] = p[2]

\* A call writes nowhere but in the buffers it was given, and nowhere at all
\* when it is refused; the exception is the descriptor across the thread block.
OnlyBuffers == [][\A x \in 0 .. MemWords - 1 : mem'[x] # mem[x] => x \in bufs']_vars
===============================================================================
