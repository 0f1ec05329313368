-------------------------------- MODULE MCBoot --------------------------------
(***************************************************************************)
(* ELF files of up to two loadable segments: adjacent, overlapping, ending *)
(* on a page boundary or not, with and without zero-filled space, longer   *)
(* in the file than in memory, too large for memory, cut short; one to     *)
(* three arguments, of which two are passed on.                            *)
(***************************************************************************)
EXTENDS Boot

Phdr(v, off, f, m) == [type |-> "load", vaddr |-> v, off |-> off, filesz |-> f, memsz |-> m]
Note == [type |-> "note", vaddr |-> 0, off |-> 0, filesz |-> 1, memsz |-> 1]

PhdrLists ==
    {<<>>,
     <<Note, Phdr(32, 0, 12, 14)>>,
     <<Phdr(32, 0, 6, 16), Phdr(48, 6, 7, 13)>>,
     <<Phdr(32, 0, 8, 16), Phdr(36, 8, 2, 9)>>,
     <<Phdr(48, 2, 3, 16), Phdr(32, 0, 5, 8)>>,
     <<Phdr(32, 0, 5, 4)>>,
     <<Phdr(32, 0, 0, 0), Phdr(33, 3, 2, 2)>>,
     <<Phdr(80, 0, 4, 8)>>,
     <<Phdr(64, 0, 3, 12)>>,
     <<Phdr(151, 0, 12, 5)>>,
     <<Phdr(16, 0, 6, 8), Phdr(152, 0, 2, 12)>>}

MCInputs ==
    [header_ok : BOOLEAN, phdrs : PhdrLists, size : {7, 14}, phoff : {1},
     phentsize : {8}, entry : {17}, args : {<<2>>, <<1, 3>>, <<1, 1, 2>>}]
===============================================================================
