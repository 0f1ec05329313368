----------------------------- MODULE ProcessMemory -----------------------------
(***************************************************************************)
(* The layout of guest memory as backend_win32.c keeps it: main sets both  *)
(* variables up (Boot), sys_brk and sys_mmap2 move them (AddressSpace).    *)
(***************************************************************************)
EXTENDS Integers

CONSTANT PageSize       \* 0x1000

VARIABLES g_brk,        \* the program break
          g_mmap_ptr    \* next free address of the arena of mmap2
===============================================================================
