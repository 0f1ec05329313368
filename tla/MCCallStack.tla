----------------------------- MODULE MCCallStack -----------------------------
(* Dwords of two 2-bit bytes: 16 addresses, of which memory has 10; room for  *)
(* four words below the top of the stack and one above it.                    *)
EXTENDS CallStack

MCOffsets == {-3}
MCImm8s == {2}
MCImm32s == {9}
MCPops == {2}
===============================================================================
