------------------------------ MODULE LossyLog ------------------------------
(***************************************************************************)
(* What servers may expect of their activity logs, whatever happens to a   *)
(* channel: queues that may lose entries and show the others once, in the  *)
(* order they happened. ActivityLog implements it.                         *)
(***************************************************************************)
EXTENDS Naturals, Sequences

CONSTANT Guilds

VARIABLES
    logged,    \* how many outcomes a server has logged; the n-th is entry n
    pending,   \* the entries that wait to be shown, oldest first
    shown      \* the entries the server has seen, oldest first

logVars == <<logged, pending, shown>>

LogInit ==
    /\ logged = [g \in Guilds |-> 0]
    /\ pending = [g \in Guilds |-> <<>>]
    /\ shown = [g \in Guilds |-> <<>>]

\* A queue without its entries i to j.
Cut(q, i, j) == SubSeq(q, 1, i - 1) \o SubSeq(q, j + 1, Len(q))

\* Neighbours in the queue are lost together, or none is (i = j + 1).
Lose(g, i, j) ==
    /\ pending'[g] = Cut(pending[g], i, j)
    /\ logged'[g] = logged[g] /\ shown'[g] = shown[g]

\* An entry is logged, whether or not others are lost to it, or itself.
Log(g, i, j) ==
    /\ logged'[g] = logged[g] + 1
    /\ pending'[g] = Cut(Append(pending[g], logged'[g]), i, j)
    /\ shown'[g] = shown[g]

\* The oldest n entries are shown.
Show(g, n) ==
    /\ shown'[g] = shown[g] \o SubSeq(pending[g], 1, n)
    /\ pending'[g] = SubSeq(pending[g], n + 1, Len(pending[g]))
    /\ logged'[g] = logged[g]

LogStep(g) ==
    \/ \E j \in 0..Len(pending[g]) : \E i \in 1..j + 1 : Lose(g, i, j)
    \/ \E j \in 0..Len(pending[g]) + 1 : \E i \in 1..j + 1 : Log(g, i, j)
    \/ \E n \in 1..Len(pending[g]) : Show(g, n)

LogNext == \A g \in Guilds : LogStep(g)

LogSpec == LogInit /\ [][LogNext]_logVars

\* An entry is shown once, in the order it happened, and no other is: the
\* shown entries and then those that wait are numbered upwards, none above
\* what has been logged.
InOrder ==
    \A g \in Guilds :
        LET all == shown[g] \o pending[g]
        IN  \A k \in 1..Len(all) :
              /\ all[k] \in 1..logged[g]
              /\ \A m \in 1..k - 1 : all[m] < all[k]
=============================================================================
