---------------------------- MODULE StripeMirror ----------------------------
(***************************************************************************)
(* Card subscriptions: Stripe repeats an event until it hears a 2xx; the   *)
(* dashboard (stripe_webhook) answers each delivery by fetching the state  *)
(* the subscription has by then and sending it to the bot; the bot         *)
(* (write_dashboard_stripe_subscription) mirrors it in one transaction.    *)
(* Deliveries of one event, and of several, overlap and overtake. The      *)
(* subscriptions are those one server bought; what Stripe holds of one     *)
(* names that server, until somebody edits it there.                       *)
(***************************************************************************)
EXTENDS Naturals, FiniteSets, Sequences

CONSTANTS
    Subs,
    Copies,     \* what Stripe may hold of a subscription
    MaxStates,  \* bound: changes Stripe makes to the subscriptions, together
    MaxHandling \* bound: deliveries the dashboard handles at once

Servers == {"ours", "theirs", "none"}

\* Good: of a status _stripe_row_is_paid accepts while the period runs. Whole:
\* no field is missing. Server: the one its metadata names.
ASSUME MirrorConstants ==
    /\ MaxStates \in Nat /\ MaxHandling \in Nat /\ IsFiniteSet(Subs)
    /\ Copies \subseteq [good : BOOLEAN, whole : BOOLEAN, server : Servers]

VARIABLES
    life,       \* Stripe: [Subs -> Seq of states], a copy and the second it began in
    lapsed,     \* [Subs -> Nat]: of states up to this one the paid period is over
    acked,      \* events Stripe has heard a 2xx for
    handling,   \* deliveries whose state is fetched and not yet written
    ledger,     \* stripe_event: event ids applied or dropped for good
    row         \* [Subs -> stripe_subscription row, and whose it is]: state 0 is no row

stripe == <<life, lapsed>>
mirror == <<ledger, row>>
mirrorVars == <<stripe, acked, handling, mirror>>

\* Event k of a subscription says that its k-th state began.
Events == {<<s, k>> : s \in Subs, k \in 1..MaxStates}
Sent == {e \in Events : e[2] <= Len(life[e[1]])}
Stamp(e) == life[e[1]][e[2]].sec

NoRow == [state |-> 0, stamp |-> 0, server |-> "none"]

MirrorInit ==
    /\ life = [s \in Subs |-> <<>>]
    /\ lapsed = [s \in Subs |-> 0]
    /\ acked = {}
    /\ handling = {}
    /\ ledger = {}
    /\ row = [s \in Subs |-> NoRow]

----------------------------------------------------------------------------
\* Stripe.

\* A subscription changes, perhaps within the second of its last change: it
\* is bought, by a checkout that names the server, renewed, unpaid, cancelled,
\* edited.
Change(s, copy, same) ==
    LET last == IF life[s] = <<>> THEN 0 ELSE life[s][Len(life[s])].sec
    IN  /\ Cardinality(Sent) < MaxStates
        /\ life[s] = <<>> => copy.server = "ours" /\ ~same
        /\ life' = [life EXCEPT ![s] = Append(@, [copy |-> copy,
                                                  sec |-> IF same THEN last ELSE last + 1])]
        /\ UNCHANGED <<lapsed, acked, handling, mirror>>

\* The period paid for is over.
Lapse(s) ==
    /\ lapsed[s] < Len(life[s])
    /\ lapsed' = [lapsed EXCEPT ![s] = Len(life[s])]
    /\ UNCHANGED <<life, acked, handling, mirror>>

----------------------------------------------------------------------------
\* The webhook.

\* The state a delivery fetches: not the event's own copy, which may be old.
Defect_BehindEvent(e) == IF e[2] = 1 THEN 1 ELSE e[2] - 1
Fetched(e) == Len(life[e[1]])

\* Whose server a state is for: what it names, else what the event's own names.
ServerFor(e, state) ==
    LET named == life[e[1]][state].copy.server
    IN  IF named = "none" THEN life[e[1]][e[2]].copy.server ELSE named

\* Nothing to route the event by, before anything is fetched, and nothing to
\* record of what is fetched.
Unroutable(e) == life[e[1]][e[2]].copy.server = "none"
Incomplete(e) == ~life[e[1]][Fetched(e)].copy.whole

\* An event is delivered (again), its signature holds, and the current state
\* of its subscription is fetched. (A delivery refused before that, or that
\* cannot fetch, changes nothing, and comes again.)
Deliver(e) ==
    /\ e \in Sent \ acked
    /\ ~Unroutable(e) /\ ~Incomplete(e)
    /\ Cardinality(handling) < MaxHandling
    /\ handling' = handling \cup {[event |-> e, state |-> Fetched(e)]}
    /\ UNCHANGED <<stripe, acked, mirror>>

\* What can be neither routed nor recorded is answered 200, for good, and the
\* bot hears nothing of it.
Ignore(e) ==
    /\ e \in Sent \ acked
    /\ Unroutable(e) \/ Incomplete(e)
    /\ acked' = acked \cup {e}
    /\ UNCHANGED <<stripe, handling, mirror>>

\* handle_put_stripe_subscription: a write that did not complete is no answer.
ApiStatus(ok) == IF ok THEN 200 ELSE 503

\* What Stripe is told of a delivery that was or was not written.
Answer2xx(ok) == ApiStatus(ok) = 200

\* The bot, or the way to it, failed: nothing is stored, the ledger entry is
\* rolled back with the rest, Stripe is answered 503.
LedgerAfterFailure(m) == ledger

WriteFails(m) ==
    /\ handling' = handling \ {m}
    /\ ledger' = LedgerAfterFailure(m)
    /\ acked' = IF Answer2xx(FALSE) THEN acked \cup {m.event} ELSE acked
    /\ UNCHANGED <<stripe, row>>

----------------------------------------------------------------------------
\* The bot's write.

\* An event that names another server than its row is recorded and dropped,
OwnRow(m) == row[m.event[1]].server \in {"none", ServerFor(m.event, m.state)}

\* and so is one no newer than what the row was last written by.
Defect_AnyAge(m) == TRUE
Newer(m) == Stamp(m.event) > row[m.event[1]].stamp

Applies(m) == m.event \notin ledger /\ OwnRow(m) /\ Newer(m)

\* A state is stored whatever its status: a row outlives its subscription.
Defect_UnpaidDeleted(m) ==
    IF life[m.event[1]][m.state].copy.good
    THEN [state |-> m.state, stamp |-> Stamp(m.event), server |-> ServerFor(m.event, m.state)]
    ELSE NoRow
Stored(m) ==
    [state |-> m.state, stamp |-> Stamp(m.event), server |-> ServerFor(m.event, m.state)]

\* Event ids thirty days old are pruned: Stripe repeated them for three.
Settled == {e \in ledger \cap acked : \A m \in handling : m.event # e}

Write(m, heard, old) ==
    LET s == m.event[1]
    IN  /\ old \subseteq Settled
        /\ ledger' = IF m.event \in ledger THEN ledger ELSE (ledger \ old) \cup {m.event}
        /\ row' = IF Applies(m) THEN [row EXCEPT ![s] = Stored(m)] ELSE row
        /\ handling' = handling \ {m}
        /\ acked' = IF heard /\ Answer2xx(TRUE) THEN acked \cup {m.event} ELSE acked
        /\ UNCHANGED stripe

\* _stripe_row_is_paid, of the rows the server has.
RowPaid(s) ==
    LET n == row[s].state
    IN  row[s].server = "ours" /\ n > lapsed[s] /\ life[s][n].copy.good

----------------------------------------------------------------------------
MirrorTypeOK ==
    /\ life \in [Subs -> Seq([copy : Copies, sec : Nat])]
    /\ lapsed \in [Subs -> Nat]
    /\ acked \subseteq Sent
    /\ \A m \in handling : m.event \in Sent /\ m.state \in m.event[2]..Len(life[m.event[1]])
    /\ ledger \subseteq Sent
    /\ row \in [Subs -> [state : Nat, stamp : Nat, server : Servers]]
    /\ \A s \in Subs : row[s].state <= Len(life[s])

\* A state the webhook can record, for the server that bought it.
Plain(s, k) == life[s][k].copy.whole /\ life[s][k].copy.server = "ours"

\* "Losing an event quietly is the one outcome this must never produce": once
\* Stripe has been answered for the last event of a subscription, in whatever
\* order and however often they all came, the row holds a state as recent as
\* the current one, to the second, which is all an event tells of its age. Not
\* so, and answered all the same: a state with a field missing or naming no
\* server, and one of a subscription that has at some time named another.
MirrorCatchesUp ==
    \A s \in Subs : LET n == Len(life[s]) IN
        /\ n > 0 /\ <<s, n>> \in acked
        /\ Plain(s, n) /\ \A k \in 1..n : life[s][k].copy.server # "theirs"
        => row[s].state \in 1..n /\ life[s][row[s].state].sec = life[s][n].sec
=============================================================================
