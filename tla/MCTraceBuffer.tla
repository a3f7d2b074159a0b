--------------------------- MODULE MCTraceBuffer ---------------------------
(* A first block of three cells: it grows within a few steps, and again.   *)
EXTENDS TraceBuffer
=============================================================================
