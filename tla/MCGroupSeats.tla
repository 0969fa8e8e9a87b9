--------------------------- MODULE MCGroupSeats ---------------------------
(* Small instances of GroupSeats for TLC. *)
EXTENDS GroupSeats, TLC
Symmetric == Permutations(Guilds \ Legacy) \cup Permutations(Legacy)
               \cup Permutations(Groups) \cup Permutations(Accounts)
               \cup Permutations(Jobs) \cup Permutations(Codes)
===========================================================================
