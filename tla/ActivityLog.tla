---------------------------- MODULE ActivityLog ----------------------------
(***************************************************************************)
(* The activity log of bot.py: outcomes of verifications are buffered per  *)
(* server (VerificationLogBuffer), where its plan allows (DiscordPlan), and *)
(* one flush task drains the buffer and posts it to the channel the server *)
(* chose. Every await is a boundary between steps: outcomes, admins,       *)
(* Discord and crashes fall between them. The n-th outcome of a server is  *)
(* entry n; a batch that carries losses opens with a note of how many.      *)
(***************************************************************************)
EXTENDS DiscordPlan, Naturals, FiniteSets, Sequences, Functions

CONSTANTS
    Channels,
    MaxPerGuild,    \* VERIFICATION_LOG_MAX_BUFFERED
    PerMessage,     \* items one message holds, for DISCORD_MESSAGE_MAX_LEN
    Entries         \* bound: outcomes of one server

ASSUME LogConstants ==
    /\ MaxPerGuild \in Nat \ {0} /\ PerMessage \in Nat \ {0} /\ Entries \in Nat
    /\ None \notin Channels

VARIABLES
    channel,    \* [Guilds -> Channels or None]: the stored log channel
    alive,      \* channels that exist at Discord
    reading,    \* servers an outcome is under way for, its channel id read
    logged,     \* [Guilds -> Nat]: outcomes logged so far
    lines,      \* [Guilds -> Seq(1..Entries)]: _lines
    dropped,    \* [Guilds -> Nat]: _dropped
    batch,      \* [Guilds -> batch]: what the flush task holds
    shown,      \* [Guilds -> Seq(1..Entries)]: what the channels show
    told,       \* [Guilds -> Nat]: the losses the notes shown add up to
    lost        \* history: [Guilds -> entries a full buffer or a refused send cost]
                \* (told and lost: since a start, or a batch left uncounted)

logVars == <<channel, alive, reading, logged, lines, dropped, batch, shown, told, lost>>
vars == <<logVars, planVars>>
buffer == <<logged, lines, dropped>>
seen == <<shown, told>>

\* A drained batch: its channel as read with the drain, the entries not yet
\* sent, how many it had and the losses it carries. Posting is FALSE until the
\* flush task has come to it, and note TRUE until the note is sent.
Idle == [posting |-> FALSE, to |-> None, note |-> FALSE, rest |-> <<>>, size |-> 0, carried |-> 0]

Init ==
    /\ channel = [g \in Guilds |-> None]
    /\ alive = Channels
    /\ reading = {}
    /\ logged = [g \in Guilds |-> 0]
    /\ lines = [g \in Guilds |-> <<>>]
    /\ dropped = [g \in Guilds |-> 0]
    /\ batch = [g \in Guilds |-> Idle]
    /\ shown = [g \in Guilds |-> <<>>]
    /\ told = [g \in Guilds |-> 0]
    /\ lost = [g \in Guilds |-> {}]
    /\ PlanInit

----------------------------------------------------------------------------
\* The outcomes and the buffer.

\* assign_role has read the channel id, and asks for the plan.
ReadChannel(g) ==
    /\ channel[g] # None
    /\ g \notin reading
    /\ reading' = reading \cup {g}
    /\ UNCHANGED <<channel, alive, buffer, batch, seen, lost, planVars>>

AskPlan(g) ==
    /\ g \in reading
    /\ AskCached(g) \/ Ask(g)
    /\ UNCHANGED logVars

\* How many lines are too many, of n.
Defect_Unbounded(n) == 0
Over(n) == IF n > MaxPerGuild THEN n - MaxPerGuild ELSE 0

\* add: the newest is kept, the oldest go.
Add(g) ==
    LET all == Append(lines[g], logged[g] + 1)
        over == Over(Len(all))
    IN  /\ logged' = [logged EXCEPT ![g] = @ + 1]
        /\ lines' = [lines EXCEPT ![g] = SubSeq(all, over + 1, Len(all))]
        /\ dropped' = [dropped EXCEPT ![g] = @ + over]
        /\ lost' = [lost EXCEPT ![g] = @ \cup Range(SubSeq(all, 1, over))]

\* The plan is Discord's or, asked without an await, the card's. The role was
\* given in between. Bound: Entries outcomes of a server.
QueueLog(g, card) ==
    /\ ask[g] \in {"granted", "refused"}
    /\ ask' = [ask EXCEPT ![g] = "idle"]
    /\ reading' = reading \ {g}
    /\ IF (ask[g] = "granted" \/ card) /\ logged[g] < Entries
       THEN Add(g)
       ELSE UNCHANGED <<buffer, lost>>
    /\ UNCHANGED <<channel, alive, batch, seen, plan, ever, discord>>

\* The count and the lines drain leaves behind: a count stays when its server
\* has no lines to report it with.
Defect_CountsCleared(g) == 0
CountLeft(g) == IF lines[g] = <<>> THEN dropped[g] ELSE 0

Defect_LinesKept(g) == lines[g]
LinesLeft(g) == <<>>

\* drain and load_log_channels, no await between them; the query may fail.
Drain(read) ==
    /\ \A g \in Guilds : batch[g] = Idle
    /\ batch' = [g \in Guilds |->
                   IF lines[g] = <<>> THEN Idle
                   ELSE [posting |-> FALSE, to |-> IF read THEN channel[g] ELSE None, note |-> FALSE,
                         rest |-> lines[g], size |-> Len(lines[g]), carried |-> dropped[g]]]
    /\ dropped' = [g \in Guilds |-> CountLeft(g)]
    /\ lines' = [g \in Guilds |-> LinesLeft(g)]
    /\ UNCHANGED <<channel, alive, reading, logged, seen, lost, planVars>>

----------------------------------------------------------------------------
\* A batch nobody posts or counts: "no_channel" and "gone".
LeaveBatch(g) ==
    /\ batch' = [batch EXCEPT ![g] = Idle]
    /\ told' = [told EXCEPT ![g] = 0]
    /\ lost' = [lost EXCEPT ![g] = {}]
    /\ UNCHANGED shown

\* flush_guild_log, one server at a time.

Waiting(g) == batch[g] # Idle /\ ~batch[g].posting

\* A batch without a channel id reads it again, which may fail too; without
\* one the batch is left, uncounted. Otherwise the note goes first.
BeginPost(g, read) ==
    LET to == IF batch[g].to = None /\ read THEN channel[g] ELSE batch[g].to
    IN  /\ Waiting(g)
        /\ \A h \in Guilds : ~batch[h].posting
        /\ IF to = None
           THEN LeaveBatch(g)
           ELSE /\ batch' = [batch EXCEPT ![g] = [@ EXCEPT !.posting = TRUE, !.to = to,
                                                          !.note = batch[g].carried > 0]]
                /\ UNCHANGED <<seen, lost>>
        /\ UNCHANGED <<channel, alive, reading, buffer, planVars>>

\* How many entries the next message takes: the note is an item as they are.
Fits(g) ==
    LET room == IF batch[g].note THEN PerMessage - 1 ELSE PerMessage
        left == Len(batch[g].rest)
    IN  IF left < room THEN left ELSE room

\* One message of the batch is sent; the last one ends it.
SendOk(g) ==
    LET rest == batch[g].rest
        n == Fits(g)
    IN  /\ batch[g].posting
        /\ batch[g].to \in alive
        /\ shown' = [shown EXCEPT ![g] = @ \o SubSeq(rest, 1, n)]
        /\ told' = [told EXCEPT ![g] = IF batch[g].note THEN @ + batch[g].carried ELSE @]
        /\ batch' = [batch EXCEPT ![g] =
                       IF n = Len(rest) THEN Idle
                       ELSE [@ EXCEPT !.note = FALSE, !.rest = SubSeq(rest, n + 1, Len(rest))]]
        /\ UNCHANGED <<channel, alive, reading, buffer, lost, planVars>>

\* NotFound: the stored channel is forgotten, whichever it is by now.
SendGone(g) ==
    /\ batch[g].posting
    /\ batch[g].to \notin alive
    /\ channel' = [channel EXCEPT ![g] = None]
    /\ LeaveBatch(g)
    /\ UNCHANGED <<alive, reading, buffer, planVars>>

\* What the caller reports to note_lost.
BatchLoss(b) == b.size + b.carried

\* Forbidden, any other HTTP error, or an exception of the flush: note_lost.
\* The whole batch is counted again, the messages that landed included.
SendRefused(g) ==
    /\ batch[g].posting
    /\ dropped' = [dropped EXCEPT ![g] = @ + BatchLoss(batch[g])]
    /\ lost' = [lost EXCEPT ![g] = @ \cup Range(batch[g].rest)]
    /\ batch' = [batch EXCEPT ![g] = Idle]
    /\ UNCHANGED <<channel, alive, reading, logged, lines, seen, planVars>>

----------------------------------------------------------------------------
\* Around the flush.

\* An admin chooses a channel, or none.
SetChannel(g, c) ==
    /\ channel[g] # c
    /\ channel' = [channel EXCEPT ![g] = c]
    /\ UNCHANGED <<alive, reading, buffer, batch, seen, lost, planVars>>

DeleteChannel(c) ==
    /\ alive' = alive \ {c}
    /\ c \in alive
    /\ UNCHANGED <<channel, reading, buffer, batch, seen, lost, planVars>>

\* The bot restarts: the buffer is memory.
Restart ==
    /\ reading' = {}
    /\ lines' = [g \in Guilds |-> <<>>]
    /\ dropped' = [g \in Guilds |-> 0]
    /\ batch' = [g \in Guilds |-> Idle]
    /\ told' = [g \in Guilds |-> 0]
    /\ lost' = [g \in Guilds |-> {}]
    /\ Forgotten
    /\ UNCHANGED <<channel, alive, logged, shown>>

PlanStep ==
    /\ \E g \in Guilds :
         \/ Answer(g) \/ AnswerArrives(g) \/ AskFails(g) \/ Expire(g)
         \/ \E yes \in BOOLEAN : Interaction(g, yes) \/ EntitlementChanges(g, yes)
    /\ UNCHANGED logVars

Next ==
    \/ PlanStep
    \/ \E g \in Guilds :
         \/ ReadChannel(g) \/ AskPlan(g) \/ SendOk(g) \/ SendGone(g) \/ SendRefused(g)
         \/ \E yes \in BOOLEAN : QueueLog(g, yes) \/ BeginPost(g, yes)
         \/ \E c \in Channels \cup {None} : SetChannel(g, c) /\ c \in alive \cup {None}
    \/ \E read \in BOOLEAN : Drain(read)
    \/ \E c \in Channels : DeleteChannel(c)
    \/ Restart

Spec == Init /\ [][Next]_vars

----------------------------------------------------------------------------
LogTypeOK ==
    /\ channel \in [Guilds -> Channels \cup {None}]
    /\ alive \subseteq Channels
    /\ reading \subseteq Guilds
    /\ logged \in [Guilds -> 0..Entries]
    /\ lines \in [Guilds -> Seq(1..Entries)]
    /\ \A g \in Guilds : Len(lines[g]) <= MaxPerGuild
    /\ dropped \in [Guilds -> Nat]
    /\ batch \in [Guilds -> [posting : BOOLEAN, to : Channels \cup {None}, note : BOOLEAN,
                             rest : Seq(1..Entries), size : Nat, carried : Nat]]
    /\ shown \in [Guilds -> Seq(1..Entries)]
    /\ told \in [Guilds -> Nat]
    /\ lost \in [Guilds -> SUBSET (1..Entries)]

TypeOK == LogTypeOK /\ PlanTypeOK

\* No hole without a note: every entry the full buffer or a refused send cost
\* is in a count that is kept, carried by a batch, or has been shown. (The
\* counts say "at least": a batch refused halfway is counted whole.)
LossIsTold ==
    \A g \in Guilds : Cardinality(lost[g]) <= dropped[g] + batch[g].carried + told[g]

\* The entries of a server still to be shown.
Pending(g) == batch[g].rest \o lines[g]

\* The logs are lossy queues: an entry appears once, and in order, whatever
\* is drained, sent in parts, refused, or logged while a batch is being sent.
Queue == INSTANCE LossyLog WITH pending <- [g \in Guilds |-> Pending(g)]
IsLossyLog == Queue!LogSpec
=============================================================================
