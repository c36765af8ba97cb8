---------------------------- MODULE MCRxWindow ----------------------------
(* RxWindow for TLC: the benchmark's counts for a window of four buffers.       *)
EXTENDS RxWindow

MCCounts == <<1, 2>>
=============================================================================
