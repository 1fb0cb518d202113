---------------------------- MODULE MCRecordLock ----------------------------
(***************************************************************************)
(* Small instances of RecordLock: two tabs of one admin and one of another. *)
(***************************************************************************)
EXTENDS RecordLock, TLC

CONSTANTS alice, bob, aliceTab, aliceReload, bobTab

MCAdminOf == [l \in Leases |-> IF l = bobTab THEN bob ELSE alice]

Symmetry == Permutations(Calls) \cup Permutations(Leases \ {bobTab})
=============================================================================
