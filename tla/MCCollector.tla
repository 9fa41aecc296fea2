----------------------------- MODULE MCCollector -----------------------------
(* Small instances of Collector.                                           *)
EXTENDS Collector

\* Reachability alone or a budget of one file, and both with files stamped at
\* the clock's last tick protected or not.
AllOptions == [MaxBytes: {0, 1}, MinAge: {0, 1}, DryRun: BOOLEAN]
Evicting == [MaxBytes: {1}, MinAge: {0, 1}, DryRun: {FALSE}]
=============================================================================
