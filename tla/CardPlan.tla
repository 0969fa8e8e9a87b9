------------------------------ MODULE CardPlan ------------------------------
(***************************************************************************)
(* One server's card plan in the bot, over StripeMirror: the cache in      *)
(* front of the mirrored rows (stripe_active), which is read without an    *)
(* await and guesses closed, and the trial, once per server                *)
(* (trial_eligible), with the ledger of the servers that have had the plan *)
(* through Discord (record_entitlement_seen and the sweep of each boot).   *)
(***************************************************************************)
EXTENDS StripeMirror, StatusCache

VARIABLES
    card,       \* stripe_status_cache
    guessed,    \* history: its fresh answer is a guess
    held,       \* Discord has issued the server an entitlement
    seen,       \* premium_entitlement_seen has the server
    deal        \* [Subs -> the checkout made for it: "none", "trial", "full"]

planVars == <<card, guessed, held, seen, deal>>
vars == <<mirrorVars, planVars>>

Init ==
    /\ MirrorInit
    /\ card = Empty /\ guessed = FALSE
    /\ held \in BOOLEAN
    /\ seen = FALSE
    /\ deal = [s \in Subs |-> "none"]

----------------------------------------------------------------------------
\* The cache.

CardPaid == \E s \in Subs : RowPaid(s)

\* stripe_active on a miss.
ReadCard(ok) ==
    /\ card.fresh = None
    /\ card' = IF ok THEN Known(CardPaid) ELSE Provisional(card, Guess(card, FALSE))
    /\ guessed' = ~ok
    /\ UNCHANGED <<mirrorVars, held, seen, deal>>

\* The bot writes an event, then invalidates what it holds of that server, in
\* one process and no await.
WriteEvent(m, heard, old) ==
    /\ Write(m, heard, old)
    /\ IF Applies(m) /\ ServerFor(m.event, m.state) = "ours"
       THEN card' = Invalidate(card) /\ guessed' = FALSE
       ELSE UNCHANGED <<card, guessed>>
    /\ UNCHANGED <<held, seen, deal>>

\* The TTL runs out.
Expire ==
    /\ card.fresh # None
    /\ card' = [card EXCEPT !.fresh = None]
    /\ guessed' = FALSE
    /\ UNCHANGED <<mirrorVars, held, seen, deal>>

\* The bot restarts: the cache is memory.
Restart ==
    /\ card' = Empty /\ guessed' = FALSE
    /\ UNCHANGED <<mirrorVars, held, seen, deal>>

----------------------------------------------------------------------------
\* The trial.

\* record_entitlement_seen: once for ever, and never an exception.
Recorded(written) == seen' = (seen \/ written)

\* An entitlement event, of any kind; the bot may be down, the write may fail.
EntitlementEvent(written) ==
    /\ held' = TRUE
    /\ Recorded(written)
    /\ UNCHANGED <<mirrorVars, card, guessed, deal>>

\* sweep_entitlement_history, the entitlements that have ended included.
Sweep ==
    /\ held
    /\ Recorded(TRUE)
    /\ UNCHANGED <<mirrorVars, card, guessed, held, deal>>

HasEverPaid == seen \/ \E s \in Subs : row[s].server = "ours"

\* A ledger that cannot be read refuses the trial.
TrialEligible(read) == read /\ ~HasEverPaid

----------------------------------------------------------------------------
\* The page that sells.

\* load_stripe_subscription: the rows themselves, past the cache.
PaidCards == {s \in Subs : RowPaid(s)}

\* read_dashboard_settings, for a tier that is enforced: the gate's answer,
\* which is the cache's where Discord's is no; Discord's alone; the rows; the
\* trial.
Settings(discord, read) ==
    [premium |-> discord \/ card.fresh = TRUE, discord |-> discord,
     cards |-> Cardinality(PaidCards), trial |-> TrialEligible(read)]

\* subscription_view.build, with both Stripe switches on. (A browser back from
\* a checkout is shown "pending" for "none"; the checkout never looks.)
PageState(p) ==
    CASE p.cards > 1 \/ (p.cards = 1 /\ p.discord) -> "both"
      [] p.cards = 1 /\ ~p.discord -> "stripe"
      [] p.cards = 0 /\ p.premium -> "discord"
      [] p.cards = 0 /\ ~p.premium -> "none"

OffersCard(p) == PageState(p) = "none"

\* trial_days_for.
DealFor(p) == IF p.trial THEN "trial" ELSE "full"

\* subscription_checkout: the page's answers, read again. The checkout
\* completes later, or never: Change.
Checkout(s, discord, read) ==
    LET p == Settings(discord, read)
    IN  /\ deal[s] = "none"
        /\ discord \/ card.fresh # None
        /\ OffersCard(p)
        /\ deal' = [deal EXCEPT ![s] = DealFor(p)]
        /\ UNCHANGED <<mirrorVars, card, guessed, held, seen>>

----------------------------------------------------------------------------
Bought(s) == deal[s] # "none"

Next ==
    \/ \E s \in Subs :
         \/ Lapse(s) /\ UNCHANGED planVars
         \/ \E copy \in Copies, same \in BOOLEAN :
              Bought(s) /\ Change(s, copy, same) /\ UNCHANGED planVars
         \/ \E discord, read \in BOOLEAN : Checkout(s, discord, read)
    \/ \E e \in Events : (Deliver(e) \/ Ignore(e)) /\ UNCHANGED planVars
    \/ \E m \in handling :
         \/ WriteFails(m) /\ UNCHANGED planVars
         \/ \E heard \in BOOLEAN, old \in SUBSET Settled : WriteEvent(m, heard, old)
    \/ \E yes \in BOOLEAN : ReadCard(yes) \/ EntitlementEvent(yes)
    \/ Sweep \/ Expire \/ Restart

Spec == Init /\ [][Next]_vars

----------------------------------------------------------------------------
TypeOK ==
    /\ MirrorTypeOK
    /\ card \in Caches
    /\ guessed \in BOOLEAN /\ held \in BOOLEAN /\ seen \in BOOLEAN
    /\ deal \in [Subs -> {"none", "trial", "full"}]

\* The server's row is of a state whose period is over.
Overdue(s) == row[s].server = "ours" /\ row[s].state \in 1..lapsed[s]

\* A fresh answer about the card that is no guess is the rows', however the
\* events came in; only the end of a paid period waits for the TTL.
CardCacheIsRow ==
    card.fresh # None /\ ~guessed =>
        \/ card.fresh = CardPaid
        \/ card.fresh /\ \E s \in Subs : Overdue(s)

\* "a server that has never had a paid plan, by either route": once Stripe has
\* been answered for any event of a subscription whose every state could be
\* recorded for the server, or the ledger has the server, no checkout has a
\* trial, whatever was cancelled, lapsed, pruned or restarted since. Of
\* checkouts open before that, each may have one.
NoTrialOncePaid ==
    [][\A s \in Subs : deal[s] = "none" /\ deal'[s] = "trial" =>
        /\ ~seen
        /\ \A e \in acked : \E k \in 1..Len(life[e[1]]) : ~Plain(e[1], k)]_vars
=============================================================================
