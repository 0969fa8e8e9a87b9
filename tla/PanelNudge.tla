----------------------------- MODULE PanelNudge -----------------------------
(***************************************************************************)
(* The nudge (bot.py): a server that was set up and has no panel after a    *)
(* grace period gets one DM.  The setup command starts the clock, the panel *)
(* and the DM stop it, a sweep of limited size reads the oldest rows and    *)
(* sends with awaits between.  Every write of this bookkeeping swallows its *)
(* own failure.  (A servers row is never deleted, so the sweep's branch for *)
(* a missing one is left out.)                                              *)
(***************************************************************************)
EXTENDS Naturals, FiniteSets

CONSTANTS
    Guilds,
    Limit,  \* PANEL_NUDGE_MAX_PER_SWEEP
    Nobody

ASSUME NudgeAssumption ==
    /\ Limit \in Nat \ {0}
    /\ IsFiniteSet(Guilds) /\ Nobody \notin Guilds

VARIABLES
    present,  \* guilds the bot is in
    panel,    \* guilds with an instructions_message_id
    clock,    \* guild_onboarding: no row, "open", past the grace, or flagged
    older,    \* its rows by setup_at: pairs, the older one first
    todo,     \* candidates the sweep has loaded; the order it takes them in is left open
    to,       \* the guild whose DM is being sent, or Nobody
    owed,     \* history: clocks started and not yet spent on a DM
    unmarked  \* history: the mark of a DM was lost

sweep == <<todo, to>>
nudgeVars == <<present, panel, clock, older, sweep, owed, unmarked>>

Rows == {g \in Guilds : clock[g] # "none"}

NudgeInit ==
    /\ present = Guilds /\ panel = {}
    /\ clock = [g \in Guilds |-> "none"] /\ older = {}
    /\ todo = {} /\ to = Nobody
    /\ owed = [g \in Guilds |-> 0] /\ unmarked = FALSE

Without(g) == {e \in older : g \notin {e[1], e[2]}}

\* record_guild_onboarding, from a setup command that found no panel: a new
\* clock, or a flagged one started again; one that is running is left.  The flag
\* is taken to mean that a panel was posted since, but the DM sets it as well:
\* a command run after the DM starts a second clock for the same gap.
Setup(g) ==
    /\ g \in present \ panel
    /\ clock[g] \in {"none", "sent"}
    /\ clock' = [clock EXCEPT ![g] = "open"]
    /\ older' = Without(g) \cup ((Rows \ {g}) \X {g})
    /\ owed' = [owed EXCEPT ![g] = IF @ < 2 THEN @ + 1 ELSE @]
    /\ UNCHANGED <<present, panel, sweep, unmarked>>

\* The cutoff passes the rows one by one, the oldest first.
Grace(g) ==
    /\ clock[g] = "open"
    /\ \A h \in Guilds : <<h, g>> \in older => clock[h] # "open"
    /\ clock' = [clock EXCEPT ![g] = "due"]
    /\ UNCHANGED <<present, panel, older, sweep, owed, unmarked>>

\* Defect: the row waits for the panel, and the DM does not stop it.
Defect_LeavesRow(g) == clock

\* complete_guild_onboarding.
Completed(g) == IF clock[g] = "none" THEN clock ELSE [clock EXCEPT ![g] = "sent"]

\* A panel is recorded, by the button or the command.
PanelUp(g) ==
    /\ g \in present \ panel /\ panel' = panel \cup {g}
    /\ clock' \in {Completed(g), clock}
    /\ UNCHANGED <<present, older, sweep, owed, unmarked>>

\* forget_instruction_panel.
PanelGone(g) ==
    /\ g \in panel /\ panel' = panel \ {g}
    /\ UNCHANGED <<present, clock, older, sweep, owed, unmarked>>

\* forget_guild_onboarding.
Forgotten(g) == clock' = [clock EXCEPT ![g] = "none"] /\ older' = Without(g)

\* on_guild_remove; the cleanup may fail.
Removed(g) ==
    /\ g \in present /\ present' = present \ {g}
    /\ panel' = panel \ {g}
    /\ Forgotten(g) \/ UNCHANGED <<clock, older>>
    /\ UNCHANGED <<sweep, owed, unmarked>>

Added(g) ==
    /\ g \notin present /\ present' = present \cup {g}
    /\ UNCHANGED <<panel, clock, older, sweep, owed, unmarked>>

-----------------------------------------------------------------------------
Due == {g \in Guilds : clock[g] = "due"}

\* Defect: everything owed is sent in one sweep.
Defect_NoLimit(T) == T = Due

\* T is what the query returns: the oldest of the due rows, Limit at most. The
\* LIMIT comes before the look at the panel.
Oldest(T) ==
    /\ T \subseteq Due /\ Cardinality(T) <= Limit
    /\ T = Due \/ Cardinality(T) = Limit
    /\ T \X (Due \ T) \subseteq older

\* Defect: a row that cannot be acted on is only skipped.
Defect_Skips(g) == clock[g]

\* A row of a server with a panel is retired where it stands.
Retired(g) == "sent"

\* load_panel_nudge_candidates.
Load ==
    /\ todo = {} /\ to = Nobody
    /\ \E T \in SUBSET Due \ {{}} :
         /\ Oldest(T)
         /\ todo' = T \ panel
         /\ clock' = [g \in Guilds |-> IF g \in T \cap panel THEN Retired(g) ELSE clock[g]]
    /\ UNCHANGED <<present, panel, older, to, owed, unmarked>>

\* send_panel_nudge_dm of a guild the bot has left: no DM, and no row.
Drop(g) ==
    /\ g \in todo \ present /\ to = Nobody
    /\ Forgotten(g) \/ UNCHANGED <<clock, older>>
    /\ todo' = todo \ {g}
    /\ UNCHANGED <<present, panel, to, owed, unmarked>>

\* Marked before it is sent, with awaits between.  What was loaded is not
\* looked at again.
Mark(g) ==
    /\ g \in todo \cap present /\ to = Nobody
    /\ to' = g /\ todo' = todo \ {g}
    /\ \/ clock' = Completed(g) /\ UNCHANGED unmarked
       \/ UNCHANGED clock /\ unmarked' = TRUE
    /\ UNCHANGED <<present, panel, older, owed>>

\* The DM goes out.
Deliver ==
    /\ to # Nobody /\ to' = Nobody
    /\ owed' = [owed EXCEPT ![to] = IF @ > 0 THEN @ - 1 ELSE @]
    /\ UNCHANGED <<present, panel, clock, older, todo, unmarked>>

\* There is nobody to send it to, or Discord refuses it.
NotDelivered ==
    /\ to # Nobody /\ to' = Nobody
    /\ UNCHANGED <<present, panel, clock, older, todo, owed, unmarked>>

Crash ==
    /\ todo # {} \/ to # Nobody
    /\ todo' = {} /\ to' = Nobody
    /\ UNCHANGED <<present, panel, clock, older, owed, unmarked>>

Sweep == Load \/ (\E g \in Guilds : Drop(g) \/ Mark(g)) \/ Deliver \/ NotDelivered

NudgeNext ==
    \/ \E g \in Guilds :
         Setup(g) \/ Grace(g) \/ PanelUp(g) \/ PanelGone(g) \/ Removed(g) \/ Added(g)
    \/ Sweep \/ Crash

NudgeSpec == NudgeInit /\ [][NudgeNext]_nudgeVars

\* The sweep is a loop for ever, and the database takes a write that is made
\* again and again.
Settles(g) == Sweep /\ clock[g] = "due" /\ clock'[g] # "due"

NudgeFairSpec == NudgeSpec /\ WF_nudgeVars(Sweep) /\ \A g \in Guilds : SF_nudgeVars(Settles(g))

-----------------------------------------------------------------------------
\* The rows are ordered, and a sweep holds no more of them than it may: a
\* backlog trickles out.
NudgeTypeOK ==
    /\ present \subseteq Guilds /\ panel \subseteq Guilds
    /\ clock \in [Guilds -> {"none", "open", "due", "sent"}]
    /\ older \subseteq Rows \X Rows
    /\ \A g, h \in Rows : g # h => (<<g, h>> \in older <=> <<h, g>> \notin older)
    /\ todo \subseteq Guilds /\ Cardinality(todo) <= Limit
    /\ to \in Guilds \cup {Nobody} /\ to \notin todo
    /\ owed \in [Guilds -> 0..2] /\ unmarked \in BOOLEAN

\* A clock is spent on one DM at most: not a failure to deliver, not a crash
\* between the mark and the DM, not a list loaded long ago sends another.  That is
\* one DM for each clock the setup command has started, and not one for each gap:
\* a gap has as many clocks as commands run in it after a DM (Setup).
ClockSpentOnce == [][Deliver => owed[to] > 0 \/ unmarked]_nudgeVars

\* Rows that can never be acted on do not keep the sweep, whose LIMIT comes
\* first, from the rows behind them.
DueIsHeard == \A g \in Guilds : clock[g] = "due" ~> clock[g] # "due"
=============================================================================
