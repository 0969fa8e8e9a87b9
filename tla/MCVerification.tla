-------------------------- MODULE MCVerification --------------------------
(* Small instances of Verification for TLC. *)
EXTENDS Verification, TLC
Symmetric == Permutations(Members) \cup Permutations(Guilds)
               \cup Permutations(Accounts) \cup Permutations(Codes)
============================================================================
