--------------------------- MODULE MCAddressSpace ---------------------------
(***************************************************************************)
(* A guest with 6-bit addresses (WordMod 64) and 28 bytes of memory in     *)
(* pages of 4, the last 4 bytes the stack's.  The heap starts at 4 and the *)
(* arena at 12, or the program ends so high that the heap starts at 22, or *)
(* even outside guest memory, and the arena at the end of memory.  The     *)
(* lengths cover nothing, less than a page, more than a page, a length     *)
(* whose end wraps the address space and one that wraps while it is        *)
(* rounded up.                                                             *)
(***************************************************************************)
EXTENDS AddressSpace

MCLayouts    == {[heap |-> 4, arena |-> 12], [heap |-> 22, arena |-> 28],
                 [heap |-> 30, arena |-> 28]}
MCBrkArgs    == {0, 2, 5, 8, 15, 25, 28}
MCMapLens    == {0, 3, 5, 49, 62}
MCFixedAddrs == {10, 28}
MCStoreAddrs == {4, 12, 17, 23}
=============================================================================
