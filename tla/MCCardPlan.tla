----------------------------- MODULE MCCardPlan -----------------------------
(* TLC instance of CardPlan: the .cfg files give the constants.              *)
EXTENDS CardPlan, TLC

\* A paid state and an unpaid one, one with a field missing, one that names
\* another server, and one that names none.
SomeCopies ==
    {[good |-> good, whole |-> TRUE, server |-> "ours"] : good \in BOOLEAN} \cup
    {[good |-> TRUE, whole |-> FALSE, server |-> "ours"]} \cup
    {[good |-> TRUE, whole |-> TRUE, server |-> server] : server \in {"theirs", "none"}}

Symmetric == Permutations(Subs)
=============================================================================
