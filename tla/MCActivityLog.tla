---------------------------- MODULE MCActivityLog ----------------------------
(* TLC instance of ActivityLog: the .cfg files give the constants.           *)
EXTENDS ActivityLog, TLC

Symmetric == Permutations(Channels)
=============================================================================
