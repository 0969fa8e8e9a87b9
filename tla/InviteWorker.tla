---------------------------- MODULE InviteWorker ----------------------------
(***************************************************************************)
(* The consumer thread of vrc_group_inviter.py on invite jobs, one VRChat   *)
(* call at a time, beside the relogin thread of VRCSession.  The queue is   *)
(* at least once with one job in hand; publishing, acking, the process and  *)
(* every call may fail.  (Setup and leave jobs are GroupSeats's.)           *)
(***************************************************************************)
EXTENDS VRCSession, Naturals

CONSTANTS
    Jobs,      \* messages on the request queue
    Retries,   \* VRCHAT_CALL_RETRIES
    MaxLosses  \* bound: crashes and lost broker connections

ASSUME WorkerAssumption == Retries \in Nat \ {0} /\ MaxLosses \in Nat

VARIABLES
    kind,         \* what each message is
    place,        \* where each message is
    redelivered,  \* messages the broker would mark so
    at,           \* the step the handler is at
    job,          \* the job in hand, or None
    held,         \* the client the handler took
    tries,        \* create calls of this chain
    answer,       \* what the handler is about to report, or None
    world,        \* what is true of the group and the member at VRChat
    changed,      \* history: whether that changed during this run
    sent,         \* history: create calls made for each job
    published,    \* history: the answers published for each job
    losses        \* crashes and lost connections so far

hand == <<at, job, held, tries, answer>>
queue == <<kind, place, redelivered>>
history == <<sent, published, losses>>
vars == <<session, hand, queue, world, changed, history>>

\* "refuses": no invites from this group; "shut": the bot may not invite.
Worlds == {"open", "refuses", "shut", "no_user", "no_group"}
Kinds == {"sound", "bad_ids", "junk"}
Blames == {"blocked", "no_permission", "user_not_found", "group_not_found"}
Answers == Blames \cup {"sent", "already_member", "already_invited", "banned",
                        "vrchat_unavailable", "bad_job"}
Steps == {"idle", "member", "create", "probe403", "probe404", "publish",
          "settle", "failed"}
CallCap == Retries * (3 + MaxLosses)

ASSUME NoneIsNothing == None \notin Jobs \cup Cookies \cup Answers

TypeOK ==
    /\ SessionTypeOK
    /\ kind \in [Jobs -> Kinds]
    /\ place \in [Jobs -> {"queued", "held", "acked", "dropped"}]
    /\ redelivered \subseteq Jobs
    /\ at \in Steps /\ job \in Jobs \cup {None}
    /\ held \in Cookies \cup {None} /\ tries \in 0..Retries
    /\ answer \in Answers \cup {None}
    /\ world \in Worlds /\ changed \in BOOLEAN
    /\ sent \in [Jobs -> 0..CallCap] /\ published \in [Jobs -> SUBSET Answers]
    /\ losses \in 0..MaxLosses
    /\ job = None <=> at = "idle"
    /\ at = "publish" => answer # None
    /\ \A j \in Jobs : place[j] = "held" <=> job = j

Init ==
    /\ SessionInit
    /\ kind \in [Jobs -> Kinds] /\ place = [j \in Jobs |-> "queued"]
    /\ redelivered = {}
    /\ at = "idle" /\ job = None /\ held = None /\ tries = 0 /\ answer = None
    /\ world \in Worlds /\ changed = FALSE
    /\ sent = [j \in Jobs |-> 0] /\ published = [j \in Jobs |-> {}]
    /\ losses = 0

-----------------------------------------------------------------------------
Elsewhere == UNCHANGED <<queue, world, changed, history>>

\* The handler returns, and publish_result is next.
Reports(a) ==
    /\ at' = "publish" /\ answer' = a /\ tries' = 0
    /\ UNCHANGED <<job, held>>

GoesTo(step) == at' = step /\ UNCHANGED <<job, held, tries, answer>>

\* process_job: what cannot be read is dropped; a job is checked, and asks
\* for the session.
Deliver(j) ==
    /\ booted /\ at = "idle" /\ place[j] = "queued"
    /\ IF kind[j] = "junk"
       THEN place' = [place EXCEPT ![j] = "dropped"] /\ UNCHANGED hand
       ELSE /\ place' = [place EXCEPT ![j] = "held"]
            /\ job' = j /\ held' = client /\ tries' = 0
            /\ \/ kind[j] = "bad_ids" /\ at' = "publish" /\ answer' = "bad_job"
               \/ /\ kind[j] = "sound" /\ client = None
                  /\ at' = "publish" /\ answer' = "vrchat_unavailable"
               \/ /\ kind[j] = "sound" /\ client # None
                  /\ at' = "member" /\ answer' = None
    /\ changed' = FALSE
    /\ UNCHANGED <<session, kind, redelivered, world, history>>

\* Defect: the probe takes a dead session for a group that is there.
Defect_ReadsOn(step) ==
    CASE step = "probe404" -> "user_not_found"
      [] step = "probe403" -> "blocked"
      [] OTHER -> "vrchat_unavailable"

\* What a 401 is reported as: it is never read as an answer.
Refused(step) == "vrchat_unavailable"

\* A call with a client VRChat no longer takes: _call_with_retry and its
\* caller invalidate.
Unauthorized ==
    /\ at \in {"member", "create", "probe403", "probe404"} /\ held = "dead"
    /\ Invalidate
    /\ Reports(Refused(at))
    /\ Elsewhere

\* What is raised and is no ApiException: a time-out, a cut connection.  The
\* probe catches it.
Unexpected ==
    /\ at \in {"member", "create"}
    /\ GoesTo("failed")
    /\ sent' = IF at = "create"
                 THEN [sent EXCEPT ![job] = IF @ < CallCap THEN @ + 1 ELSE @]
                 ELSE sent
    /\ UNCHANGED <<session, queue, world, changed, published, losses>>

\* get_group_member: a standing that settles it, or anything else and the
\* invite is tried.
CheckMember ==
    /\ at = "member" /\ held = "live"
    /\ \/ \E a \in {"already_member", "already_invited", "banned"} : Reports(a)
       \/ world = "refuses" /\ Reports("blocked")
       \/ GoesTo("create")
    /\ Elsewhere /\ UNCHANGED session

\* One create_group_invite call.  A transient failure is tried again, and may
\* have sent the invite all the same.
Create ==
    /\ at = "create" /\ held = "live"
    /\ sent' = [sent EXCEPT ![job] = IF @ < CallCap THEN @ + 1 ELSE @]
    /\ \/ world = "open" /\ Reports("sent")
       \/ world \in {"refuses", "shut"} /\ GoesTo("probe403")
       \/ world \in {"no_user", "no_group"} /\ GoesTo("probe404")
       \/ Reports("already_member")
       \/ Reports("vrchat_unavailable")
       \/ /\ tries + 1 < Retries
          /\ tries' = tries + 1
          /\ UNCHANGED <<at, job, held, answer>>
    /\ UNCHANGED <<session, queue, world, changed, published, losses>>

\* What a failed invite is reported as when the probe found the group.
Reading(step) ==
    IF step = "probe404" THEN "user_not_found"
    ELSE IF world = "shut" THEN "no_permission" ELSE "blocked"

\* _probe_group: what is true about the group now; not knowing blames nobody.
Probe ==
    /\ at \in {"probe403", "probe404"} /\ held = "live"
    /\ \/ world # "no_group" /\ Reports(Reading(at))
       \/ world = "no_group" /\ Reports("group_not_found")
       \/ Reports("vrchat_unavailable")
    /\ Elsewhere /\ UNCHANGED session

-----------------------------------------------------------------------------
\* The broker hears what becomes of the job in hand, or the connection has
\* been lost meanwhile and the broker gives the job out again.
Settle(to, again) ==
    /\ at' = "idle" /\ job' = None /\ held' = None /\ tries' = 0
    /\ answer' = None
    /\ \/ /\ place' = [place EXCEPT ![job] = to]
          /\ redelivered' = redelivered \cup again
          /\ UNCHANGED losses
       \/ /\ losses < MaxLosses /\ losses' = losses + 1
          /\ place' = [place EXCEPT ![job] = "queued"]
          /\ redelivered' = redelivered \cup {job}
    /\ UNCHANGED <<kind, sent>>

\* Defect: a failed publish always requeues.
Defect_AlwaysRequeues == Settle("queued", {job})

\* basic_nack: requeued once, then dropped.
Nack ==
    \/ job \notin redelivered /\ Settle("queued", {job})
    \/ job \in redelivered /\ Settle("dropped", {})

\* Defect: publish_result gives up and returns.
Defect_PublishGivesUp ==
    /\ at = "publish" /\ GoesTo("settle")
    /\ UNCHANGED <<session, queue, world, changed, history>>

Publish ==
    /\ at = "publish"
    /\ published' = [published EXCEPT ![job] = @ \cup {answer}]
    /\ GoesTo("settle")
    /\ UNCHANGED <<session, queue, world, changed, sent, losses>>

\* publish_result raises once its tries are spent.
PublishFails ==
    /\ at = "publish" /\ Nack
    /\ UNCHANGED <<session, world, changed, published>>

Ack ==
    /\ at = "settle" /\ Settle("acked", {})
    /\ UNCHANGED <<session, world, changed, published>>

\* process_job's last handler: before a job is dropped for good its owner is
\* told, if that can be published.
HandleFailure ==
    /\ at = "failed" /\ Nack
    /\ \/ /\ job \in redelivered
          /\ published' = [published EXCEPT ![job] = @ \cup {"vrchat_unavailable"}]
       \/ UNCHANGED published
    /\ UNCHANGED <<session, world, changed>>

\* The process ends: the broker takes back the job in hand.
Crash ==
    /\ losses < MaxLosses /\ losses' = losses + 1
    /\ Restart
    /\ place' = [j \in Jobs |-> IF j = job THEN "queued" ELSE place[j]]
    /\ redelivered' = redelivered \cup ({job} \ {None})
    /\ at' = "idle" /\ job' = None /\ held' = None /\ tries' = 0
    /\ answer' = None
    /\ UNCHANGED <<kind, world, changed, sent, published>>

\* The group, the member or the bot's role changes at VRChat.
WorldChanges(w) ==
    /\ w # world /\ world' = w /\ changed' = TRUE
    /\ UNCHANGED <<session, hand, queue, history>>

\* The session ends for whoever holds its cookie.
SessionEnds ==
    /\ Revoke /\ held' = Ended(held)
    /\ UNCHANGED <<at, job, tries, answer>> /\ Elsewhere

LoginThread == LoginStep /\ UNCHANGED hand /\ Elsewhere
Clock == Due /\ UNCHANGED hand /\ Elsewhere

Handle ==
    \/ \E j \in Jobs : Deliver(j)
    \/ Unauthorized \/ Unexpected \/ CheckMember \/ Create \/ Probe
    \/ Publish \/ PublishFails \/ Ack \/ HandleFailure

Next ==
    \/ Handle \/ LoginThread \/ Clock \/ SessionEnds \/ Crash
    \/ \E w \in Worlds : WorldChanges(w)

Spec == Init /\ [][Next]_vars

Granted(step) == step /\ UNCHANGED hand /\ Elsewhere

\* Both threads run, time passes, and what is asked again and again is not
\* refused for ever: VRChat answers, mails its code and takes it in the end.
FairSpec ==
    /\ Spec
    /\ WF_vars(Handle) /\ WF_vars(LoginThread) /\ WF_vars(Clock)
    /\ SF_vars(Granted(Reject)) /\ SF_vars(Granted(AskCode))
    /\ SF_vars(Granted(FindCode)) /\ SF_vars(Granted(TakeCode))

-----------------------------------------------------------------------------
\* What one press of a button can send: two runs of the handler, and one more
\* for each crash or lost connection, which no flag of the broker's counts.
CallsBounded == \A j \in Jobs : sent[j] <= Retries * (2 + losses)

\* A job is only acked when its answer has been published.
AckedIsAnswered == \A j \in Jobs : place[j] = "acked" => published[j] # {}

\* A member, a group or its staff is only blamed for what is so: a session
\* that ends, or a call that fails, on the way is never read as their doing.
\* (Unless it changed while the run was under way.)
BlameIsDeserved ==
    answer \in Blames /\ ~changed =>
        world = CASE answer = "blocked" -> "refuses"
                  [] answer = "no_permission" -> "shut"
                  [] answer = "user_not_found" -> "no_user"
                  [] answer = "group_not_found" -> "no_group"

\* Every job comes to an end, however the publishes, calls and logins go.
JobsEnd == \A j \in Jobs : place[j] = "queued" ~> place[j] \in {"acked", "dropped"}
=============================================================================
