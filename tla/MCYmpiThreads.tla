---------------------------- MODULE MCYmpiThreads ----------------------------
(* YmpiThreads for TLC. *)
EXTENDS YmpiThreads

CONSTANTS t1, t2

\* Where the counters are right: they are atomic, or there is one thread.
Safe == {[atomic |-> TRUE, started |-> {t1, t2}], [atomic |-> FALSE, started |-> {t1}]}
Source == {[atomic |-> FALSE, started |-> {t1, t2}]}
==============================================================================
