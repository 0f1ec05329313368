-------------------------------- MODULE MCAlu --------------------------------
(* Bytes of 2 bits, words of 3, longs of 4: every operand of every width.    *)
EXTENDS Alu

MCBytes == 0 .. Byte - 1
MCHalves == 0 .. Half - 1
MCLongs == 0 .. Long - 1
===============================================================================
