---------------------------- MODULE MCSimulator ----------------------------
(* The kernel with three threads, two futexes, and deadlines that have passed already, at
   and in between the ticks. *)
EXTENDS Simulator

CONSTANTS t1, t2, t3

MCThread == {t1, t2, t3}
MCDeadline == {0, 1, 3}
=============================================================================
