------------------------------ MODULE MCWideOps ------------------------------
(* Longs of 5 bits and bytes of 2, so that AX leaves a bit of EAX alone; the  *)
(* counts go past both widths and past the mask.                              *)
EXTENDS WideOps

MCLongs == {0, 5, 16, 22, 31}
MCBytes == 0 .. Byte - 1
MCCounts == {0, 2, 3, 6}
===============================================================================
