------------------------------- MODULE FdTable -------------------------------
(***************************************************************************)
(* The guest's file descriptors (backend_win32.c): fd_table, the calls on  *)
(* it, and _llseek, which syscall.c wraps around sys_lseek.  One action is *)
(* one system call.                                                        *)
(*                                                                         *)
(* The host's files are external: a call may fail, a read or write may be  *)
(* short, and an open yields some handle that is not open.  The host keeps *)
(* a position for every handle; a write through one opened with O_APPEND   *)
(* goes to the end of the file, wherever that is by then.  Offsets are     *)
(* int32_t in the guest calls (Half is 2^31) and wide on the host.  A      *)
(* guest pointer is either inside guest memory or not; what the calls      *)
(* store through one is Syscalls' subject.                                 *)
(***************************************************************************)
EXTENDS ErrorNumbers, Sequences

CONSTANTS MaxFds,      \* MAX_FDS: 256
          Handles,     \* host handles; 0, 1, 2 are the standard streams
          Half,        \* 2^31
          MaxPos,      \* bound: the largest position the host accepts
          MaxCount,    \* the most the host transfers at once: 0x7FFFF000
          Fds,         \* descriptors the guest passes: in and out of range
          Highs,       \* offset_high arguments of _llseek
          Lows,        \* its offset_low arguments (uint32_t)
          IovLists     \* the iovec arrays given to writev

Std == 0 .. 2
Fd == 0 .. MaxFds - 1
Modulus == 2 * Half

ASSUME FdAssumption ==
    /\ MaxFds \in Nat /\ MaxFds >= 3
    /\ Std \subseteq Handles
    /\ Half \in Nat \ {0} /\ MaxPos \in Nat /\ MaxCount \in 0 .. Half - 1
    /\ Fds \subseteq Int /\ Highs \subseteq 0 .. Modulus - 1 /\ Lows \subseteq 0 .. Modulus - 1
    /\ IovLists \subseteq Seq([at : BOOLEAN, ok : BOOLEAN, len : 0 .. MaxCount])

VARIABLES fd_table,    \* [Fd -> [used : BOOLEAN, handle : Handles]]
          open,        \* external: the handles open on the host
          pos,         \* external: the host's position of each handle, 0 when closed
          append,      \* external: the open handles that append
          last         \* the last call: what it was, was given and returned

fd_vars == <<fd_table, open, pos, append, last>>

\* A 32-bit value read as int32_t.
ToInt32(x) == ((x + Half) % Modulus) - Half

Call(op, r) == [op |-> op, ret |-> r, whole |-> 0, base |-> 0, moved |-> 0]

FdInit ==
    /\ fd_table = [f \in Fd |-> [used |-> f \in Std,
                                 handle |-> IF f \in Std THEN f ELSE 0]]
    /\ open = Std
    /\ pos = [h \in Handles |-> 0]
    /\ append = {}
    /\ last = Call("none", 0)

Valid(fd) == fd >= 0 /\ fd < MaxFds /\ fd_table[fd].used

\* The descriptors alloc_fd chooses from; it takes the lowest.
FreeFds == {i \in 3 .. MaxFds - 1 : ~fd_table[i].used}
FirstOf(S) == CHOOSE i \in S : \A j \in S : i <= j

alloc_fd == IF FreeFds = {} THEN -1 ELSE FirstOf(FreeFds)

Return(op, r) == last' = Call(op, r) /\ UNCHANGED <<fd_table, open, pos, append>>

-------------------------------------------------------------------------------
\* sys_open and openat: the slot is chosen first and taken only when the host
\* has opened the file, for appending when the guest asks for it.
Install(g, h) == [fd_table EXCEPT ![g] = [used |-> TRUE, handle |-> h]]

sys_open(path_ok, o_append) ==
    IF ~path_ok THEN Return("open", EFAULT)
    ELSE IF alloc_fd < 0 THEN Return("open", EMFILE)
    ELSE \/ Return("open", EIO)
         \/ \E h \in Handles \ open :
              /\ open' = open \cup {h}
              /\ append' = IF o_append THEN append \cup {h} ELSE append
              /\ fd_table' = Install(alloc_fd, h)
              /\ last' = Call("open", alloc_fd)
              /\ UNCHANGED pos

\* Mutated form of Release: the slot stays in use.
KeepSlot(fd) == fd_table

\* sys_close leaves the standard streams alone and says it closed them.
Release(fd) == [fd_table EXCEPT ![fd].used = FALSE]

sys_close(fd) ==
    IF ~Valid(fd) THEN Return("close", EBADF)
    ELSE IF fd <= 2 THEN Return("close", 0)
    ELSE /\ open' = open \ {fd_table[fd].handle}
         /\ fd_table' = Release(fd)
         /\ append' = append \ {fd_table[fd].handle}
         /\ pos' = [pos EXCEPT ![fd_table[fd].handle] = 0]
         /\ last' = Call("close", 0)

\* Where the host starts a transfer through handle h: at its position, or for
\* a write that appends at the end of the file, which others may have moved.
Starts(op, h) == IF op # "read" /\ h \in append THEN 0 .. MaxPos ELSE {pos[h]}

\* The host moves n bytes from there on.  Streams have no position here.
Advance(h, from, n) ==
    /\ from + n <= MaxPos
    /\ pos' = IF h \in Std \/ n = 0 THEN pos ELSE [pos EXCEPT ![h] = from + n]

\* A call for which the host took n bytes, from position "from" on.
Transfer(op, r, from, n) ==
    [op |-> op, ret |-> r, whole |-> n, base |-> from, moved |-> from + n]

\* sys_read and sys_write: a count of 0 succeeds before anything is checked.
sys_rw(op, fd, buf_ok, count) ==
    IF count = 0 THEN Return(op, 0)
    ELSE IF ~Valid(fd) THEN Return(op, EBADF)
    ELSE IF ~buf_ok THEN Return(op, EFAULT)
    ELSE \/ Return(op, EIO)
         \/ \E n \in 0 .. count, from \in Starts(op, fd_table[fd].handle) :
              /\ Advance(fd_table[fd].handle, from, n)
              /\ last' = Transfer(op, ToInt32(n), from, n)
              /\ UNCHANGED <<fd_table, open, append>>

-------------------------------------------------------------------------------
(* Seeking.  A whence of 0, 1, 2 seeks from the start, the position, the     *)
(* end; the size of the file is the host's.  SeekTo is the host's lseek:     *)
(* the standard streams refuse.                                              *)

Bases(fd, whence) ==
    CASE whence = 0 -> {0}
      [] whence = 1 -> {pos[fd_table[fd].handle]}
      [] whence = 2 -> 0 .. MaxPos

\* What sys_lseek returns to its caller for host position p.
Reported(p) == ToInt32(p)

\* Mutated form of Narrow: the sign bit is masked off.
NarrowMasked(low) == low % Half

\* The cast of offset_low that _llseek makes.
Narrow(low) == ToInt32(low)

\* sys_lseek: the host moves the position, then the result is narrowed to
\* int32_t.  "whole" is the offset the guest meant.
lseek(op, fd, offset, whole, whence) ==
    IF ~Valid(fd) THEN Return(op, EBADF)
    ELSE IF whence \notin 0 .. 2 THEN Return(op, EINVAL)
    ELSE IF fd_table[fd].handle \in Std THEN Return(op, ESPIPE)
    ELSE \E b \in Bases(fd, whence) :
           IF b + offset \notin 0 .. MaxPos THEN Return(op, EINVAL)
           ELSE /\ pos' = [pos EXCEPT ![fd_table[fd].handle] = b + offset]
                /\ last' = [op |-> op, ret |-> Reported(b + offset),
                            whole |-> whole, base |-> b, moved |-> b + offset]
                /\ UNCHANGED <<fd_table, open, append>>

sys_lseek(fd, offset, whence) == lseek("lseek", fd, offset, offset, whence)

\* offset_high:offset_low as the 64-bit number the guest means.
Whole(high, low) == (IF high >= Half THEN high - Modulus ELSE high) * Modulus + low

\* _llseek: "ret" is the error sys_lseek returned or, when it returned none,
\* the result that is stored for the guest (EAX is then 0).
sys_llseek(fd, high, low, whence) ==
    IF high # 0 /\ high # Modulus - 1 THEN Return("llseek", EINVAL)
    ELSE lseek("llseek", fd, Narrow(low), Whole(high, low), whence)

-------------------------------------------------------------------------------
(* sys_writev writes the buffers one by one and stops at the first error,    *)
(* forgetting what it wrote before.  An iovec is [at, ok, len]: the entry    *)
(* and the buffer are inside guest memory, the length.  The host takes ns[i] *)
(* bytes of buffer i or fails (-1); behind the error it is not asked.        *)

Stops(fd, iov, ns, i) ==
    \/ ~iov[i].at
    \/ iov[i].len > 0 /\ (~Valid(fd) \/ ~iov[i].ok \/ ns[i] < 0)

StopAt(fd, iov, ns) ==
    LET S == {i \in 1 .. Len(iov) : Stops(fd, iov, ns, i)}
    IN  IF S = {} THEN Len(iov) + 1 ELSE FirstOf(S)

WritevError(fd, v) ==
    IF ~v.at THEN EFAULT ELSE IF ~Valid(fd) THEN EBADF
    ELSE IF ~v.ok THEN EFAULT ELSE EIO

\* Bytes the host takes from the first k - 1 buffers.
TakenBefore(iov, ns, k) ==
    LET taken[i \in 0 .. Len(iov)] ==
          IF i = 0 THEN 0 ELSE taken[i - 1] + (IF iov[i].len = 0 THEN 0 ELSE ns[i])
    IN  taken[k - 1]

\* Mutated form of WritevTotal: the count of the last buffer only.
LastOnly(iov, ns) == IF Len(iov) = 0 \/ iov[Len(iov)].len = 0 THEN 0 ELSE ns[Len(iov)]

\* What a writev that meets no error returns: an int32_t sum.
WritevTotal(iov, ns) == ToInt32(TakenBefore(iov, ns, Len(iov) + 1))

sys_writev(fd, iov) ==
    \E ns \in [1 .. Len(iov) -> -1 .. MaxCount] :
      LET stop == StopAt(fd, iov, ns)
          done == TakenBefore(iov, ns, stop)
          r == IF stop > Len(iov) THEN WritevTotal(iov, ns) ELSE WritevError(fd, iov[stop])
      IN  /\ \A i \in 1 .. Len(iov) : ns[i] <= iov[i].len /\ (i > stop => ns[i] = 0)
          /\ \/ done = 0 /\ last' = Call("writev", r) /\ UNCHANGED pos
             \/ done # 0 /\ \E from \in Starts("writev", fd_table[fd].handle) :
                  /\ Advance(fd_table[fd].handle, from, done)
                  /\ last' = Transfer("writev", r, from, done)
          /\ UNCHANGED <<fd_table, open, append>>

\* sys_fstat64 changes no descriptor.
sys_fstat64(fd, buf_ok) ==
    IF ~Valid(fd) THEN Return("fstat64", EBADF)
    ELSE IF ~buf_ok THEN Return("fstat64", EFAULT)
    ELSE Return("fstat64", 0) \/ Return("fstat64", EIO)

FdNext ==
    \/ \E ok, o_append \in BOOLEAN : sys_open(ok, o_append)
    \/ \E fd \in Fds : sys_close(fd)
    \/ \E op \in {"read", "write"}, fd \in Fds, ok \in BOOLEAN, n \in 0 .. MaxCount :
         sys_rw(op, fd, ok, n)
    \/ \E fd \in Fds, low \in Lows, w \in 0 .. 3 : sys_lseek(fd, ToInt32(low), w)
    \/ \E fd \in Fds, high \in Highs, low \in Lows, w \in 0 .. 3 :
         sys_llseek(fd, high, low, w)
    \/ \E fd \in Fds, iov \in IovLists : sys_writev(fd, iov)
    \/ \E fd \in Fds, ok \in BOOLEAN : sys_fstat64(fd, ok)

FdSpec == FdInit /\ [][FdNext]_fd_vars

-------------------------------------------------------------------------------
Calls == {"none", "open", "close", "read", "write", "lseek", "llseek", "writev",
          "fstat64"}

\* Every variable has its type.  Positions never leave what the host accepts
\* and descriptors never leave the table.
FdTypeOK ==
    /\ fd_table \in [Fd -> [used : BOOLEAN, handle : Handles]]
    /\ open \subseteq Handles
    /\ pos \in [Handles -> 0 .. MaxPos]
    /\ append \subseteq open
    /\ last \in [op : Calls, ret : Int, whole : Int, base : Int, moved : Int]

UsedFds == {f \in Fd : fd_table[f].used}

\* The table and the host agree after any sequence of opens and closes: every
\* descriptor in use has an open handle of its own, no handle stays open that
\* no descriptor reaches, and the standard streams are never given up.
HandlesExact ==
    /\ \A f \in Std : fd_table[f] = [used |-> TRUE, handle |-> f]
    /\ open = {fd_table[f].handle : f \in UsedFds}
    /\ \A f, g \in UsedFds : fd_table[f].handle = fd_table[g].handle => f = g

FitsInt32(n) == n \in -Half .. Half - 1

\* A seek tells the guest the truth as long as offset and position fit in 31
\* bits: one that reports an error has not moved the file, one that succeeds
\* moved it by the offset asked for, to the position it reports.
SeekHonest ==
    [][last'.op \in {"lseek", "llseek"} =>
         /\ (last'.ret < 0 /\ FitsInt32(last'.moved)) => pos' = pos
         /\ (last'.ret >= 0 /\ FitsInt32(last'.moved) /\ FitsInt32(last'.whole)) =>
              /\ last'.ret = last'.moved
              /\ last'.moved = last'.base + last'.whole]_fd_vars

\* Bytes are accounted for, whatever the host's short transfers and the vector
\* of buffers, as long as their sum fits in the int32_t sys_writev keeps it in:
\* a successful read, write or writev moves at most one file, by exactly the
\* count it returns, from its position or, when it appends, from the end of the
\* file; a failed read or write moves none.  (A failed writev may have moved
\* its file, and one whose sum does not fit returns another number.)
TransferAccounted ==
    [][last'.op \in {"read", "write", "writev"} =>
         LET moved == {h \in Handles : pos'[h] # pos[h]} IN
         /\ \A h, k \in moved : h = k
         /\ (last'.ret >= 0 /\ FitsInt32(last'.whole)) =>
              \A h \in moved :
                /\ pos'[h] = last'.base + last'.ret
                /\ (last'.op = "read" \/ h \notin append) => last'.base = pos[h]
         /\ (last'.ret < 0 /\ last'.op # "writev") => moved = {}]_fd_vars

\* "if offset_high is non-zero we can't handle it, just fail": a _llseek that
\* does not fail moved the file by the offset the guest passed.
LlseekExact ==
    last.op = "llseek" /\ last.ret >= 0 => last.moved = last.base + last.whole
===============================================================================
