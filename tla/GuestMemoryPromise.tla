-------------------------- MODULE GuestMemoryPromise --------------------------
(***************************************************************************)
(* What sys_brk and sys_mmap2 promise a guest C library, without saying    *)
(* how: the heap is one interval that only grows, and every anonymous      *)
(* mapping handed out of the arena is made of bytes that were free until   *)
(* then and are never free again.  The emulator may die, or lose track of  *)
(* what is free; it never breaks the promise before it does, and the heap  *)
(* keeps its part of it even then.                                         *)
(***************************************************************************)
EXTENDS Integers

CONSTANT Ceiling       \* the first address above guest memory

VARIABLES heapTop,     \* the program break
          free,        \* the bytes of the arena no mapping has taken
          granted,     \* the arena mappings made so far, as sets of bytes
          up           \* the emulator runs and knows what is free

promiseVars == <<heapTop, free, granted, up>>

PromiseInit ==
    /\ heapTop \in Nat
    /\ free \subseteq 0 .. Ceiling - 1
    /\ granted = {}
    /\ up = TRUE

HeapGrows == heapTop < heapTop' /\ heapTop' < Ceiling

\* A brk that moves the break: upwards, inside guest memory.
Extend ==
    /\ up
    /\ HeapGrows
    /\ UNCHANGED <<free, granted, up>>

\* An anonymous mapping takes free bytes, and those only.
Grant ==
    /\ up
    /\ free' \subseteq free
    /\ granted' = granted \cup {free \ free'}
    /\ UNCHANGED <<heapTop, up>>

\* The emulator dies in the middle of a call, or a call that fails loses track
\* of the free bytes; neither hands anything out.
Crash ==
    /\ up
    /\ up' = FALSE
    /\ UNCHANGED <<heapTop, granted>>

\* From then on only the heap is still what it was.
Afterwards ==
    /\ ~up
    /\ up' = FALSE
    /\ HeapGrows \/ UNCHANGED heapTop

PromiseNext == Extend \/ Grant \/ Crash \/ Afterwards

PromiseSpec == PromiseInit /\ [][PromiseNext]_promiseVars
===============================================================================
