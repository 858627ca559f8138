------------------------------ MODULE MCMemory ------------------------------
(***************************************************************************)
(* Memory with tables of three entries: one gigabyte of nine user pages    *)
(* between two of the kernel, and a pool for two processes and a bit.      *)
(***************************************************************************)
EXTENDS Memory

MCKernelSlots == {0, 2}

\* In the middle of the first heap page, at its end, in the last page below the
\* argument, and beyond it.
MCRequests == {25, 26, 29, 31, 33}
=============================================================================
