--------------------------- MODULE MCGroupInvite ---------------------------
(* Small instances of GroupInvite for TLC. *)
EXTENDS GroupInvite, TLC
Symmetric == Permutations(Accounts) \cup Permutations(Groups)
               \cup Permutations(Jobs) \cup Permutations(Presses)
============================================================================
