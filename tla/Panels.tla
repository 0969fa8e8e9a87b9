------------------------------- MODULE Panels -------------------------------
(***************************************************************************)
(* One server's instructions panel (bot.py): the dashboard's button posts, *)
(* refreshes, moves or replaces it under a lock, the slash command posts   *)
(* it without one, refreshes edit the panel they loaded earlier, admins    *)
(* delete messages. The database keeps one panel per server and the        *)
(* version of its buttons; a process answers buttons of its version only.  *)
(***************************************************************************)
EXTENDS Naturals, FiniteSets

CONSTANTS
    Clicks,     \* clicks of the dashboard's button
    Refreshes,  \* restyles and fleet passes
    Channels,
    Posts,      \* bound: the messages the bot may post
    Legacy,     \* a panel posted as a command reply: a webhook owns it
    Versions,   \* values of INSTRUCTIONS_VIEW_VERSION
    None

Messages == Posts \cup {Legacy}

ASSUME PanelConstants ==
    /\ Versions \subseteq Nat \ {0} /\ Versions # {}
    /\ Legacy \notin Posts /\ None \notin Messages \cup Channels

VARIABLES
    version,    \* what the running process was released with
    live,       \* messages that exist at Discord
    at,         \* [Messages -> Channels]
    buttons,    \* [Messages -> Versions]: whose custom_ids they carry
    used,       \* posts made so far
    record,     \* servers.instructions_message_id (and channel), or None
    viewrow,    \* instruction_panel_views.view_version, 0 for no row
    click,      \* [Clicks -> post_dashboard_panel under way]
    slash,      \* the message a slash command has sent and not recorded, or None
    refresh,    \* [Refreshes -> probe_instruction_panel under way]
    excused,    \* history: messages left untracked for a reason (see LiveIsTracked)
    slip        \* history: a version write was lost

discord == <<live, at, buttons, used>>
stored == <<record, viewrow>>
vars == <<version, discord, stored, click, slash, refresh, excused, slip>>

NoClick == [pc |-> "idle", ch |-> None, seen |-> None, stuck |-> None, new |-> None]
NoRefresh == [id |-> None, ver |-> 0]

\* A server that has never had a panel, or one with the panel of an old
\* release, posted as a command reply.
Init ==
    /\ version \in Versions
    /\ \E ch \in Channels : at = [m \in Messages |-> ch]
    /\ buttons = [m \in Messages |-> version]
    /\ used = {}
    /\ \/ record = None /\ live = {} /\ viewrow = 0
       \/ record = Legacy /\ live = {Legacy} /\ viewrow \in {0, version}
    /\ click = [c \in Clicks |-> NoClick]
    /\ slash = None
    /\ refresh = [r \in Refreshes |-> NoRefresh]
    /\ excused = {}
    /\ slip = FALSE

----------------------------------------------------------------------------
\* The stored panel.

\* record_panel_view_version: a failure is logged and swallowed.
RecordVersion ==
    \/ viewrow' = version /\ UNCHANGED slip
    \/ slip' = TRUE /\ UNCHANGED viewrow

\* forget_instruction_panel: whatever is stored by now.
Forget ==
    /\ record' = None
    /\ viewrow' = 0
    /\ excused' = IF record \in live THEN excused \cup {record} ELSE excused

\* Defect: a release takes newer buttons for its own.
Defect_SkipsNewer(v) == v >= version

\* A release refreshes on boot the panels of every other version.
Skips(v) == v = version

----------------------------------------------------------------------------
\* post_dashboard_panel.

Set(c, pc) == click' = [click EXCEPT ![c].pc = pc]
End(c) == click' = [click EXCEPT ![c] = NoClick]

\* Defect: no lock.
Defect_NoLock(c) == TRUE

\* _panel_post_lock of the server.
LockFree(c) == \A d \in Clicks : click[d].pc = "idle"

\* A click that has the lock reads the recorded location; unreadable, nothing
\* is posted. (One that waits for the lock has done nothing yet.)
Enter(c, ch) ==
    /\ click[c].pc = "idle"
    /\ LockFree(c)
    /\ click' = [click EXCEPT ![c] =
         [pc |-> IF record # None /\ at[record] = ch THEN "checking" ELSE "posting",
          ch |-> ch, seen |-> record, stuck |-> None, new |-> None]]
    /\ UNCHANGED <<version, discord, stored, slash, refresh, excused, slip>>

\* _panel_is_webhook_owned; a read that fails ends the click.
Check(c) ==
    LET m == click[c].seen
    IN  /\ click[c].pc = "checking"
        /\ \/ End(c)
           \/ m \in live \cap {Legacy}
              /\ click' = [click EXCEPT ![c].seen = None, ![c].stuck = m, ![c].pc = "posting"]
           \/ m \notin live \cap {Legacy} /\ Set(c, "probing")
        /\ UNCHANGED <<version, discord, stored, slash, refresh, excused, slip>>

\* probe_instruction_panel on the recorded panel: refreshed, refused, or gone,
\* which makes this a first post.
Probe(c) ==
    LET m == click[c].seen
    IN  /\ click[c].pc = "probing"
        /\ \/ /\ m \in live
              /\ buttons' = [buttons EXCEPT ![m] = version]
              /\ RecordVersion /\ End(c)
              /\ UNCHANGED <<live, record, excused>>
           \/ End(c) /\ UNCHANGED <<live, buttons, stored, excused, slip>>
           \/ /\ m \notin live
              /\ Forget
              /\ click' = [click EXCEPT ![c].seen = None, ![c].pc = "posting"]
              /\ UNCHANGED <<live, buttons, slip>>
        /\ UNCHANGED <<version, at, used, slash, refresh>>

\* The message is sent; it is live before the bot hears of it.
Send(m, ch) ==
    /\ m \notin used
    /\ used' = used \cup {m}
    /\ live' = live \cup {m}
    /\ at' = [at EXCEPT ![m] = ch]
    /\ buttons' = [buttons EXCEPT ![m] = version]

Post(c) ==
    /\ click[c].pc = "posting"
    /\ \/ End(c) /\ UNCHANGED discord
       \/ \E m \in Posts :
            /\ Send(m, click[c].ch)
            /\ click' = [click EXCEPT ![c].new = m, ![c].pc = "sent"]
    /\ UNCHANGED <<version, stored, slash, refresh, excused, slip>>

\* The ids are written with no await after the send came back. Written, the
\* panel it knew of is left where it is, and the admin is told of a move.
\* Not written, the message is to be taken down again.
Record(c) ==
    LET was == click[c]
    IN  /\ was.pc = "sent"
        /\ \/ /\ record' = was.new
              /\ RecordVersion
              /\ excused' = IF was.seen # None THEN excused \cup {was.seen} ELSE excused
              /\ IF was.stuck = None THEN End(c) ELSE Set(c, "replacing")
           \/ /\ Set(c, "undoing")
              /\ UNCHANGED <<stored, excused, slip>>
        /\ UNCHANGED <<version, discord, slash, refresh>>

\* The bot deletes a message of its own; if it cannot, a person has to.
Delete(m) ==
    \/ live' = live \ {m} /\ UNCHANGED excused
    \/ excused' = excused \cup {m} /\ UNCHANGED live

Undo(c) ==
    /\ click[c].pc = "undoing"
    /\ Delete(click[c].new)
    /\ End(c)
    /\ UNCHANGED <<version, at, buttons, used, stored, slash, refresh, slip>>

Replace(c) ==
    /\ click[c].pc = "replacing"
    /\ Delete(click[c].stuck)
    /\ End(c)
    /\ UNCHANGED <<version, at, buttons, used, stored, slash, refresh, slip>>

----------------------------------------------------------------------------
\* The slash command: the same write, no lock, no look at what is recorded.
\* The admin posts the panel over another, and knows of both.

SlashPost(m, ch) ==
    /\ slash = None
    /\ Send(m, ch)
    /\ slash' = m
    /\ excused' = excused \cup {m}
    /\ UNCHANGED <<version, stored, click, refresh, slip>>

SlashRecord ==
    /\ slash # None
    /\ \/ /\ record' = slash
          /\ RecordVersion
          /\ excused' = IF record # None THEN excused \cup {record} ELSE excused
       \/ UNCHANGED <<stored, excused, slip>>
    /\ slash' = None
    /\ UNCHANGED <<version, discord, click, refresh>>

----------------------------------------------------------------------------
\* restyle_instruction_panel and the manual fleet pass take any panel and
\* rebuild its embed, the fleet pass of a boot takes those it does not skip
\* and leaves the embed alone.

LoadPanel(r) ==
    /\ refresh[r] = NoRefresh
    /\ record # None
    /\ refresh' = [refresh EXCEPT ![r] = [id |-> record, ver |-> viewrow]]
    /\ UNCHANGED <<version, discord, stored, click, slash, excused, slip>>

\* The edit lands. What a webhook owns is edited by the pass of a boot only;
\* to rebuild it is refused as "frozen".
EditOk(r) ==
    LET e == refresh[r]
    IN  /\ e.id \in live
        /\ e.id = Legacy => ~Skips(e.ver)
        /\ buttons' = [buttons EXCEPT ![e.id] = version]
        /\ IF e.ver # version THEN RecordVersion ELSE UNCHANGED <<viewrow, slip>>
        /\ refresh' = [refresh EXCEPT ![r] = NoRefresh]
        /\ UNCHANGED <<version, live, at, used, record, click, slash, excused>>

EditGone(r) ==
    /\ refresh[r].id \in Messages \ live
    /\ Forget
    /\ refresh' = [refresh EXCEPT ![r] = NoRefresh]
    /\ UNCHANGED <<version, discord, click, slash, slip>>

\* Frozen, forbidden, archived, unreadable style, or any other failure.
EditRefused(r) ==
    /\ refresh[r] # NoRefresh
    /\ refresh' = [refresh EXCEPT ![r] = NoRefresh]
    /\ UNCHANGED <<version, discord, stored, click, slash, excused, slip>>

----------------------------------------------------------------------------
AdminDeletes(m) ==
    /\ m \in live
    /\ live' = live \ {m}
    /\ UNCHANGED <<version, at, buttons, used, stored, click, slash, refresh, excused, slip>>

\* on_guild_remove; the messages stay.
BotRemoved ==
    /\ Forget
    /\ UNCHANGED <<version, discord, click, slash, refresh, slip>>

InHand(m) == \E c \in Clicks : m \in {click[c].new, click[c].stuck}

\* The bot restarts, with this release or another: what was under way is gone.
Restart(v) ==
    /\ version' = v
    /\ click' = [c \in Clicks |-> NoClick]
    /\ slash' = None
    /\ refresh' = [r \in Refreshes |-> NoRefresh]
    /\ excused' = excused \cup {m \in Messages : InHand(m)}
    /\ UNCHANGED <<discord, stored, slip>>

Next ==
    \/ \E c \in Clicks :
         \/ \E ch \in Channels : Enter(c, ch)
         \/ Check(c) \/ Probe(c) \/ Post(c) \/ Record(c) \/ Undo(c) \/ Replace(c)
    \/ \E m \in Posts, ch \in Channels : SlashPost(m, ch)
    \/ SlashRecord
    \/ \E r \in Refreshes :
         \/ LoadPanel(r) \/ EditOk(r) \/ EditGone(r) \/ EditRefused(r)
    \/ \E m \in Messages : AdminDeletes(m)
    \/ BotRemoved
    \/ \E v \in Versions : Restart(v)

Spec == Init /\ [][Next]_vars

----------------------------------------------------------------------------
TypeOK ==
    /\ version \in Versions
    /\ live \subseteq Messages /\ used \subseteq Posts
    /\ at \in [Messages -> Channels]
    /\ buttons \in [Messages -> Versions]
    /\ record \in Messages \cup {None}
    /\ viewrow \in Versions \cup {0}
    /\ click \in [Clicks -> [pc : {"idle", "checking", "probing", "posting", "sent",
                                   "undoing", "replacing"},
                             ch : Channels \cup {None}, seen : Messages \cup {None},
                             stuck : Messages \cup {None}, new : Messages \cup {None}]]
    /\ slash \in Posts \cup {None}
    /\ refresh \in [Refreshes -> [id : Messages \cup {None}, ver : Versions \cup {0}]]
    /\ excused \subseteq Messages
    /\ slip \in BOOLEAN

\* "The whole promise of this function is that clicking twice cannot do that":
\* a panel of the button is tracked, unless the admin was told where it was
\* left, its deletion failed, a refresh forgot it, or the bot went down on it.
LiveIsTracked == \A m \in live : m = record \/ InHand(m) \/ m \in excused

\* A panel that a boot skips has the buttons of that boot: with every version
\* write done, no release or rollback leaves dead buttons behind.
SkippedIsRoutable ==
    ~slip /\ record \in live /\ Skips(viewrow) => buttons[record] = version
=============================================================================
