-------------------------- MODULE MCTelegramIngest --------------------------
(* A message that is posted and edited, and two server processes.           *)
EXTENDS TelegramIngest, TLC

CONSTANTS m1, p1, p2

MCMessages == {m1}
MCProcesses == {p1, p2}
Symmetry == Permutations(MCProcesses)
=============================================================================
