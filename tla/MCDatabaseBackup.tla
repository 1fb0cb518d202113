-------------------------- MODULE MCDatabaseBackup --------------------------
(* Two workers and a tick at one run.  A second run could only be the pending *)
(* or finished one beside it; with MinimumKept = 0 retention may take the     *)
(* only success.                                                              *)
EXTENDS DatabaseBackup

CONSTANTS w1, w2, t1, b1

MCRuns == {b1}
MCWorkers == {w1, w2}
MCTickers == {t1}
=============================================================================
