------------------------------- MODULE MCSched -------------------------------
(* Small instances of Sched.                                               *)
EXTENDS Sched, Shapes

\* A negative request and zero stand for the default, one slot per CPU.
FewWorkers == {-1, 1, 2}
DefaultAndOne == {0, 1}
=============================================================================
