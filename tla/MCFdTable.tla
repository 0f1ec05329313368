------------------------------ MODULE MCFdTable ------------------------------
(***************************************************************************)
(* Five descriptors (two besides the standard streams, so the table fills  *)
(* up), 2-bit words (Half is 2) and positions up to 4, so that a position  *)
(* and the sum of a writev can be too large for the signed result, and the *)
(* sum can wrap to zero.                                                   *)
(***************************************************************************)
EXTENDS FdTable

MCHandles == 0 .. 4
MCFds     == {-1, 1, 3, 4, 5}
MCHighs   == {0, 1, 3}
MCLows    == 0 .. 3

Iov(at, ok, len) == [at |-> at, ok |-> ok, len |-> len]
MCIovLists == {<<>>,
               <<Iov(TRUE, TRUE, 1), Iov(TRUE, TRUE, 0), Iov(TRUE, TRUE, 1)>>,
               [i \in 1 .. 4 |-> Iov(TRUE, TRUE, 1)],
               <<Iov(TRUE, TRUE, 1), Iov(TRUE, FALSE, 1)>>,
               <<Iov(TRUE, TRUE, 1), Iov(FALSE, TRUE, 0)>>}
==============================================================================
