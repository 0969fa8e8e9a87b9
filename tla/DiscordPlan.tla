---------------------------- MODULE DiscordPlan ----------------------------
(***************************************************************************)
(* The plan a server has through Discord: the bot asks over the network    *)
(* (guild_has_premium), reads it off every interaction                     *)
(* (premium_from_interaction), and hears of changes                        *)
(* (_note_entitlement_change). The question, Discord's answer and its      *)
(* arrival are steps of their own: the cache may change in between.        *)
(***************************************************************************)
EXTENDS StatusCache

CONSTANT Guilds

VARIABLES
    plan,       \* [Guilds -> BOOLEAN]: a live entitlement at Discord
    ever,       \* history: [Guilds -> the values plan has had]
    discord,    \* [Guilds -> cache]: premium_status_cache
    ask         \* [Guilds -> the lookup under way]

planVars == <<plan, ever, discord, ask>>

PlanInit ==
    /\ plan \in [Guilds -> BOOLEAN]
    /\ ever = [g \in Guilds |-> {plan[g]}]
    /\ discord = [g \in Guilds |-> Empty]
    /\ ask = [g \in Guilds |-> "idle"]

\* guild_has_premium: a fresh answer is the answer, without an await.
Decide(g, yes) == ask' = [ask EXCEPT ![g] = IF yes THEN "granted" ELSE "refused"]

AskCached(g) ==
    /\ ask[g] = "idle"
    /\ discord[g].fresh # None
    /\ Decide(g, discord[g].fresh)
    /\ UNCHANGED <<plan, ever, discord>>

Ask(g) ==
    /\ ask[g] = "idle"
    /\ discord[g].fresh = None
    /\ ask' = [ask EXCEPT ![g] = "asked"]
    /\ UNCHANGED <<plan, ever, discord>>

Answer(g) ==
    /\ ask[g] = "asked"
    /\ ask' = [ask EXCEPT ![g] = IF plan[g] THEN "yes" ELSE "no"]
    /\ UNCHANGED <<plan, ever, discord>>

\* Stored over whatever happened to the cache meanwhile.
AnswerArrives(g) ==
    /\ ask[g] \in {"yes", "no"}
    /\ discord' = [discord EXCEPT ![g] = Known(ask[g] = "yes")]
    /\ Decide(g, ask[g] = "yes")
    /\ UNCHANGED <<plan, ever>>

\* The guess is open: a server nothing is known of has the plan.
AskFails(g) ==
    LET guess == Guess(discord[g], TRUE)
    IN  /\ ask[g] \in {"asked", "yes", "no"}
        /\ discord' = [discord EXCEPT ![g] = Provisional(@, guess)]
        /\ Decide(g, guess)
        /\ UNCHANGED <<plan, ever>>

\* A payload without the field looks like one without entitlements: none found
\* is not taken for known.
Defect_AbsenceIsProof(c, found) == Known(found)
FromPayload(c, found) == IF found THEN Known(TRUE) ELSE Provisional(c, FALSE)

Interaction(g, complete) ==
    /\ discord' = [discord EXCEPT ![g] = FromPayload(@, plan[g] /\ complete)]
    /\ UNCHANGED <<plan, ever, ask>>

\* The event reaches the bot, which drops the fresh answer, or does not.
EntitlementChanges(g, heard) ==
    /\ plan' = [plan EXCEPT ![g] = ~@]
    /\ ever' = [ever EXCEPT ![g] = BOOLEAN]
    /\ discord' = IF heard THEN [discord EXCEPT ![g] = Invalidate(@)] ELSE discord
    /\ UNCHANGED ask

Expire(g) ==
    /\ discord[g].fresh # None
    /\ discord' = [discord EXCEPT ![g].fresh = None]
    /\ UNCHANGED <<plan, ever, ask>>

\* The bot restarts.
Forgotten ==
    /\ discord' = [g \in Guilds |-> Empty]
    /\ ask' = [g \in Guilds |-> "idle"]
    /\ UNCHANGED <<plan, ever>>

PlanTypeOK ==
    /\ plan \in [Guilds -> BOOLEAN]
    /\ ever \in [Guilds -> SUBSET BOOLEAN]
    /\ \A g \in Guilds : plan[g] \in ever[g]
    /\ discord \in [Guilds -> Caches]
    /\ ask \in [Guilds -> {"idle", "asked", "yes", "no", "granted", "refused"}]

\* "it can never become the fallback it was itself derived from": the bot
\* falls back on an answer Discord gave. A server never without the plan is
\* never refused by a failed lookup, one never with it is granted no more
\* than a first guess.
FallbackIsHeard == \A g \in Guilds : discord[g].known \in ever[g] \cup {None}
=============================================================================
