----------------------------- MODULE StackLayout -----------------------------
(***************************************************************************)
(* Where load_elf (loader.c) puts the guest's initial stack: the strings   *)
(* and the AT_RANDOM bytes at the top of guest memory, and below them the  *)
(* block with argc, the argv pointers, the envp terminator and the         *)
(* auxiliary vector.  Pure arithmetic on the sizes involved.               *)
(***************************************************************************)
EXTENDS Integers, Sequences

CONSTANTS MemTop,       \* mem_size()
          WordBytes,    \* 4
          Align,        \* 16
          MaxArgs,      \* 63
          AuxEntries,   \* N_AUXV_ENTRIES
          RandBytes     \* 16

ASSUME StackAssumption ==
    /\ MemTop \in Nat /\ WordBytes \in Nat \ {0} /\ Align \in Nat \ {0}
    /\ MaxArgs \in Nat /\ AuxEntries \in Nat /\ RandBytes \in Nat

\* x & ~(Align - 1)
AlignDown(x) == x - (x % Align)

\* How many of n arguments the guest gets.
guest_argc(n) == IF n > MaxArgs THEN MaxArgs ELSE n

\* Bytes of the first k strings; lens[i] is strlen(argv[i]) + 1.
StringsBefore(lens, k) ==
    LET sum[i \in 0 .. Len(lens)] == IF i = 0 THEN 0 ELSE sum[i - 1] + lens[i]
    IN  sum[k]

header_words(argc) == 1 + (argc + 1) + 1 + AuxEntries * 2
header_bytes(argc) == header_words(argc) * WordBytes

str_area_top == MemTop - WordBytes
str_area_base(string_bytes) == AlignDown(str_area_top - string_bytes)

\* Mutated form of esp_base: no alignment after the block is placed.
esp_unaligned(string_bytes, argc) ==
    str_area_base(string_bytes) - header_bytes(argc)

esp_base(string_bytes, argc) ==
    AlignDown(str_area_base(string_bytes) - header_bytes(argc))
==============================================================================
