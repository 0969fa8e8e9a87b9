-------------------------- MODULE DashboardSettings --------------------------
(***************************************************************************)
(* One server's settings as the dashboard saves them (bot.py               *)
(* write_dashboard_settings, behind bot_api): a batch of fields is          *)
(* validated, stored in four tables in four transactions, and recorded in   *)
(* the audit log in a fifth.  Only awaits let another save in; any of the   *)
(* transactions may fail, and two failures are swallowed: the branding      *)
(* write, and the read of the log channel before its write.  Beside it, the *)
(* setup command writes the servers row and the log flush forgets a channel.*)
(***************************************************************************)
EXTENDS Naturals, Sequences

CONSTANTS
    Saves,    \* requests, each with one batch
    Batches   \* sets of fields the API is sent other than by the forms

Branding == {"panel_embed_color", "panel_show_icon"}
LogChannel == {"verification_log_channel_id"}
Group == {"vrchat_group_id", "vrchat_group_invite_enabled"}
ServerRow == {"role_id", "auto_nickname_change", "instructions_locale"}
Fields == Branding \cup LogChannel \cup Group \cup ServerRow

\* The tables, in the order they are written.
Tables == <<Branding, LogChannel, Group, ServerRow>>

\* The forms of the settings page (dashboard/app.py), of the fields above.
VerificationForm == {"role_id"}
MemberForm == {"auto_nickname_change"}
LoggingForm == LogChannel
PanelForm == Branding \cup {"instructions_locale"}
GroupForm == Group

\* A control that was not on the page is not submitted (_read_checkbox) ...
Filled == UNION {SUBSET form : form \in
            {VerificationForm, MemberForm, LoggingForm, PanelForm, GroupForm}}

\* ... and a form with none is not sent (_save).
Submissions == Filled \ {{}}

\* What a panel displays.
PanelVisible == Branding \cup {"instructions_locale"}

ASSUME SettingsAssumption == Batches \subseteq (SUBSET Fields) \ {{}}

VARIABLES
    value,  \* what is stored; FALSE is a field's default
    setUp,  \* whether the servers row exists
    save,   \* the coroutines of write_dashboard_settings
    audit,  \* dashboard_audit: <<save, field, old, new>>
    moved,  \* history: what each save has changed, in the same form
    swallowed  \* history: <<save, field>> of which it swallowed a failure

vars == <<value, setUp, save, audit, moved, swallowed>>

Stages == {"idle", "plan", "releasing", "restyling", "saved", "stale",
           "rejected", "unavailable"}
Changes == Saves \X Fields \X BOOLEAN \X BOOLEAN

TypeOK ==
    /\ value \in [Fields -> BOOLEAN] /\ setUp \in BOOLEAN
    /\ save \in [Saves -> [stage : Stages, batch : SUBSET Fields,
                           to : BOOLEAN, changed : SUBSET Changes]]
    /\ audit \subseteq Changes /\ moved \subseteq Changes
    /\ swallowed \subseteq Saves \X Fields
    /\ \A s \in Saves : save[s].stage = "idle" <=> save[s].batch = {}

Init ==
    /\ value = [f \in Fields |-> FALSE] /\ setUp = FALSE
    /\ save = [s \in Saves |->
                 [stage |-> "idle", batch |-> {}, to |-> FALSE, changed |-> {}]]
    /\ audit = {} /\ moved = {} /\ swallowed = {}

Goes(s, stage) == save' = [save EXCEPT ![s].stage = stage]
Elsewhere == UNCHANGED <<value, setUp, audit, moved, swallowed>>

\* The batch passes _authorize, the envelope and the coercers.  (One that does
\* not has changed nothing.)
Request(s) ==
    /\ save[s].stage = "idle"
    /\ \E b \in Submissions \cup Batches, to \in BOOLEAN :
         save' = [save EXCEPT ![s] =
                    [stage |-> "plan", batch |-> b, to |-> to, changed |-> {}]]
    /\ Elsewhere

\* The plan, the roles, the channel, the group's holder or a missing column
\* refuse it, or one of them cannot be read.
Refuse(s) ==
    /\ save[s].stage = "plan"
    /\ Goes(s, "rejected") \/ Goes(s, "unavailable")
    /\ Elsewhere

-----------------------------------------------------------------------------
\* Defect: a half that was not submitted is written as its default.
Defect_Defaults(s, f) == f \in save[s].batch /\ save[s].to

\* A table is written whole: what was not submitted as it was read.
Merged(s, f) == IF f \in save[s].batch THEN save[s].to ELSE value[f]

Touched(s, first, last) ==
    UNION {Tables[i] : i \in {k \in first..last : Tables[k] \cap save[s].batch # {}}}

\* load_log_channel_id answers None when it cannot read.
Seen(f, blind) == IF blind /\ f \in LogChannel THEN FALSE ELSE value[f]

\* Defect: of a table written whole, every field counts as changed.
Defect_ListsTable(s, fs, blind) ==
    {<<s, f, value[f], Merged(s, f)>> : f \in fs}

\* What the code lists as changed.
Listed(s, fs, blind) ==
    {<<s, f, Seen(f, blind), save[s].to>> :
       f \in {x \in fs \cap save[s].batch : Seen(x, blind) # save[s].to}}

\* What does not reach its table though no transaction ends the save: the
\* branding row when its write is lost, and a channel that reads as it should be.
Unwritten(s, lost, blind) ==
    (IF lost THEN Branding ELSE {})
      \cup {f \in LogChannel : Seen(f, blind) = save[s].to}

\* Tables first to last are committed, and the coroutine is at a stage.  A
\* branding write may be lost (save_panel_branding logs the exception), and the
\* channel be compared blind with what it was.
Commit(s, first, last, stage) ==
    \E lost, blind \in BOOLEAN :
      LET fs == Touched(s, first, last)
          written == fs \ Unwritten(s, lost, blind)
      IN  /\ value' = [f \in Fields |-> IF f \in written THEN Merged(s, f) ELSE value[f]]
          /\ moved' = moved \cup
               {<<s, f, value[f], value'[f]>> : f \in {x \in Fields : value'[x] # value[x]}}
          /\ save' = [save EXCEPT ![s] =
                        [stage |-> stage, batch |-> @.batch, to |-> @.to,
                         changed |-> @.changed \cup Listed(s, fs, blind)]]
          /\ swallowed' = swallowed \cup {<<s, f>> : f \in fs \cap
               ((IF lost THEN Branding ELSE {}) \cup (IF blind THEN LogChannel ELSE {}))}
          /\ UNCHANGED setUp

\* A group that is cleared or replaced is left, which is awaited.
Displaces(s) == value["vrchat_group_id"] /\ ~Merged(s, "vrchat_group_id")

\* A read or a transaction fails that ends the save (BRANDING_UNREADABLE, or an
\* exception nobody swallows): what went before it stays, unaudited.
Fails(s, first) ==
    /\ \E last \in first - 1 .. 4 : Commit(s, first, last, "unavailable")
    /\ UNCHANGED audit

\* There is no servers row to write to.
NotSetUp(s, first) ==
    /\ ~setUp /\ save[s].batch \cap ServerRow # {}
    /\ Commit(s, first, 3, "rejected")
    /\ UNCHANGED audit

\* Everything is written, and then audited.
Completes(s, first) ==
    /\ setUp \/ save[s].batch \cap ServerRow = {}
    /\ Commit(s, first, 4, "restyling")
    /\ audit' = audit \cup save'[s].changed

\* From the answer about the plan to the next await.
Apply(s) ==
    /\ save[s].stage = "plan"
    /\ \/ Fails(s, 1)
       \/ Displaces(s) /\ Commit(s, 1, 3, "releasing") /\ UNCHANGED audit
       \/ ~Displaces(s) /\ (NotSetUp(s, 1) \/ Completes(s, 1))

\* The leave is asked for, or could not be; the rest is written.
Resume(s) ==
    /\ save[s].stage = "releasing"
    /\ Fails(s, 4) \/ NotSetUp(s, 4) \/ Completes(s, 4)

\* The panel is restyled for a change it displays; the settings are read back,
\* if they can be.  A panel that stayed as it was is told of beside the save.
Restyles(s) == \E c \in save[s].changed : c[2] \in PanelVisible

Answer(s) ==
    /\ save[s].stage = "restyling"
    /\ \/ Goes(s, "saved") \/ Goes(s, "unavailable")
       \/ Restyles(s) /\ Goes(s, "stale")
    /\ Elsewhere

-----------------------------------------------------------------------------
\* /vrcverify_setup.
SetUp(role) ==
    /\ setUp' = TRUE /\ value' = [value EXCEPT !["role_id"] = role]
    /\ UNCHANGED <<save, audit, moved, swallowed>>

\* forget_log_channel.
ForgetLog ==
    /\ value' = [value EXCEPT !["verification_log_channel_id"] = FALSE]
    /\ UNCHANGED <<setUp, save, audit, moved, swallowed>>

Next ==
    \/ \E s \in Saves : Request(s) \/ Refuse(s) \/ Apply(s) \/ Resume(s) \/ Answer(s)
    \/ \E role \in BOOLEAN : SetUp(role)
    \/ ForgetLog

Spec == Init /\ [][Next]_vars

-----------------------------------------------------------------------------
Of(s, changes) == {c \in changes : c[1] = s}

\* The audit log has all that a save changed or nothing of it, and of a save
\* that was answered all of it, through every await and failure between.  It
\* lists what did not change only for a field of which the save swallowed a
\* failure: a lost branding write is audited and answered as saved, and so is a
\* channel set to what it already was when it could not be read.
AuditTellsAll ==
    \A s \in Saves :
        /\ \/ Of(s, audit) # {}
           \/ save[s].stage \in {"restyling", "saved", "stale"}
           => Of(s, moved) \subseteq audit
        /\ \A c \in Of(s, audit) \ moved : <<s, c[2]>> \in swallowed

\* A save moves what was submitted and nothing else, whoever else has written
\* the other fields of its tables.
OnlySubmittedMoves ==
    [][\A c \in moved' \ moved : c[2] \in save[c[1]].batch /\ c[4] = save[c[1]].to]_vars
=============================================================================
