------------------------------- MODULE StringOps -------------------------------
(***************************************************************************)
(* The string instructions (ops.c): MOVSB, MOVSD, STOSB, STOSD, SCASB and  *)
(* CMPSB alone, the first four under REP, SCASB under REPNE.  A step is    *)
(* one iteration of the handler's loop.  They always go forward: the       *)
(* direction flag is not emulated.  A behaviour is one instruction, run    *)
(* on any registers and any memory.                                        *)
(***************************************************************************)
EXTENDS GuestMemory

CONSTANTS Memories,    \* initial contents
          Pointers,    \* initial ESI and EDI
          Counts,      \* initial ECX
          Values       \* EAX

ASSUME StringAssumption ==
    /\ Memories \subseteq Memory
    /\ Pointers \subseteq 0 .. Addresses - 1 /\ Counts \subseteq Nat
    /\ Values \subseteq Nat

Single == {"movsb", "movsd", "stosb", "stosd", "scasb", "cmpsb"}
Rep == {"movsb", "movsd", "stosb", "stosd"}

VARIABLES op,          \* the instruction
          rep,         \* it has a REP or REPNE prefix
          pc,          \* run, done
          mem, esi, edi, ecx, eax,
          cf, zf,      \* BOOLEAN; SF and OF are never set by a byte compare
          start        \* history: the state before the instruction

vars == <<op, rep, pc, mem, esi, edi, ecx, eax, cf, zf, start>>

Init ==
    /\ op \in Single
    /\ rep \in BOOLEAN /\ (rep => op \in Rep \cup {"scasb"})
    /\ pc = "run"
    /\ mem \in Memories
    /\ esi \in Pointers /\ edi \in Pointers
    /\ ecx \in Counts /\ eax \in Values
    /\ cf \in BOOLEAN /\ zf \in BOOLEAN
    /\ start = [mem |-> mem, esi |-> esi, edi |-> edi, ecx |-> ecx,
                cf |-> cf, zf |-> zf]

\* uint32_t pointers wrap round.
advance(p, n) == (p + n) % Addresses

al == eax % ByteValues

Unit(o) == IF o \in {"movsd", "stosd"} THEN WordBytes ELSE 1

count_down == IF rep THEN ecx' = ecx - 1 ELSE UNCHANGED ecx

\* REP and REPNE test ECX before each iteration; a single one just runs.
Iterates(ops) == pc = "run" /\ op \in ops /\ (rep => ecx > 0)

\* A single instruction is over after one iteration.
Again == pc' = IF rep THEN "run" ELSE "done"

Move ==
    /\ Iterates({"movsb", "movsd"})
    /\ mem' = IF op = "movsb" THEN mem_write8(mem, edi, mem_read8(mem, esi))
              ELSE mem_write32(mem, edi, mem_read32(mem, esi))
    /\ esi' = advance(esi, Unit(op)) /\ edi' = advance(edi, Unit(op))
    /\ count_down /\ Again
    /\ UNCHANGED <<op, rep, eax, cf, zf, start>>

Store ==
    /\ Iterates({"stosb", "stosd"})
    /\ mem' = IF op = "stosb" THEN mem_write8(mem, edi, al) ELSE mem_write32(mem, edi, eax)
    /\ edi' = advance(edi, Unit(op))
    /\ count_down /\ Again
    /\ UNCHANGED <<op, rep, esi, eax, cf, zf, start>>

\* Mutated form of Scan: the loop looks at ZF before it compares.
ScanLate ==
    /\ Iterates({"scasb"})
    /\ LET b == mem_read8(mem, edi) IN
       /\ cf' = (al < b)
       /\ zf' = (al = b)
    /\ pc' = IF rep /\ ~zf THEN "run" ELSE "done"
    /\ edi' = advance(edi, 1)
    /\ count_down
    /\ UNCHANGED <<op, rep, mem, esi, eax, start>>

\* REPNE SCASB also stops when the bytes are equal.
Scan ==
    /\ Iterates({"scasb"})
    /\ LET b == mem_read8(mem, edi) IN
       /\ cf' = (al < b)
       /\ zf' = (al = b)
       /\ pc' = IF rep /\ al # b THEN "run" ELSE "done"
    /\ edi' = advance(edi, 1)
    /\ count_down
    /\ UNCHANGED <<op, rep, mem, esi, eax, start>>

Compare ==
    /\ Iterates({"cmpsb"})
    /\ cf' = (mem_read8(mem, esi) < mem_read8(mem, edi))
    /\ zf' = (mem_read8(mem, esi) = mem_read8(mem, edi))
    /\ esi' = advance(esi, 1) /\ edi' = advance(edi, 1)
    /\ Again
    /\ UNCHANGED <<op, rep, mem, ecx, eax, start>>

\* Mutated form of Exhausted: the loop is left one iteration early.
ExhaustedEarly ==
    /\ pc = "run" /\ rep /\ ecx <= 1
    /\ pc' = "done"
    /\ UNCHANGED <<op, rep, mem, esi, edi, ecx, eax, cf, zf, start>>

\* Mutated form of Exhausted: REPNE goes round again when the count is zero.
ExhaustedAgain ==
    /\ pc = "run" /\ rep /\ ecx = 0
    /\ pc' = IF op = "scasb" THEN "run" ELSE "done"
    /\ UNCHANGED <<op, rep, mem, esi, edi, ecx, eax, cf, zf, start>>

Exhausted ==
    /\ pc = "run" /\ rep /\ ecx = 0
    /\ pc' = "done"
    /\ UNCHANGED <<op, rep, mem, esi, edi, ecx, eax, cf, zf, start>>

Finished == pc = "done" /\ UNCHANGED vars

Next == Move \/ Store \/ Scan \/ Compare \/ Exhausted \/ Finished

\* The handler's loop keeps running.
Spec == Init /\ [][Next]_vars /\ WF_vars(Next)

-------------------------------------------------------------------------------
\* Pointers stay 32-bit, the count never goes below zero.
TypeOK ==
    /\ op \in Single /\ rep \in BOOLEAN /\ pc \in {"run", "done"}
    /\ mem \in Memory
    /\ esi \in 0 .. Addresses - 1 /\ edi \in 0 .. Addresses - 1
    /\ ecx \in Nat /\ eax \in Nat
    /\ cf \in BOOLEAN /\ zf \in BOOLEAN

\* Iterations a finished or running instruction has made.
Made == IF rep THEN start.ecx - ecx ELSE IF pc = "done" THEN 1 ELSE 0

Bytes == Made * Unit(op)

Inside(p, n) == p + n <= MemSize

Moves == op \in {"movsb", "movsd"}
Writes == Moves \/ op \in {"stosb", "stosd"}

\* No byte outside the destination changes, at any point of the loop, not
\* even when the destination runs out of guest memory or wraps round.
OnlyDestination ==
    \A x \in 0 .. MemSize - 1 :
       mem[x] # start.mem[x] =>
          Writes /\ \E i \in 0 .. Bytes - 1 : x = (start.edi + i) % Addresses

\* After MOVSB, MOVSD under REP a destination that does not start inside the
\* source holds the source as it was, overlapping below or not; one that
\* starts d bytes into it (d whole units) holds the first d bytes again and
\* again, which programs use to fill memory.
CopyExact ==
    pc = "done" /\ Moves /\ Inside(start.esi, Bytes) /\ Inside(start.edi, Bytes) =>
      LET d == start.edi - start.esi
          apart == d <= 0 \/ d >= Bytes
      IN  apart \/ d % Unit(op) = 0 =>
            \A i \in 0 .. Bytes - 1 :
              mem[start.edi + i] = start.mem[start.esi + (IF apart THEN i ELSE i % d)]

\* The registers say where the instruction stopped: ECX counts units, and the
\* pointers that the instruction uses are past the last unit.
RegistersExact ==
    pc = "done" =>
      /\ edi = (start.edi + Bytes) % Addresses
      /\ op \in {"movsb", "movsd", "cmpsb"} => esi = (start.esi + Bytes) % Addresses
      /\ rep /\ op # "scasb" => ecx = 0

\* REPNE SCASB stops at the first byte equal to AL and nowhere else; with ECX
\* zero it leaves the flags as they were.
ScanExact ==
    pc = "done" /\ op = "scasb" /\ rep =>
      LET at(i) == mem_read8(mem, (start.edi + i) % Addresses) IN
      /\ \A i \in 0 .. Made - 2 : at(i) # al
      /\ Made > 0 => (zf <=> at(Made - 1) = al)
      /\ ~zf => ecx = 0
      /\ start.ecx = 0 => cf = start.cf /\ zf = start.zf

\* Every string instruction comes to an end, whatever its count.
RepEnds == <>(pc = "done")
===============================================================================
