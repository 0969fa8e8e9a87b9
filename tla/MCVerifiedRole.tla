-------------------------- MODULE MCVerifiedRole --------------------------
(* Small instances of VerifiedRole for TLC. *)
EXTENDS VerifiedRole, TLC
Symmetric == Permutations(Members) \cup Permutations(Guilds)
               \cup Permutations(Accounts) \cup Permutations(Codes)
============================================================================
