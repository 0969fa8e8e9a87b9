---------------------------- MODULE GroupInvite ----------------------------
(***************************************************************************)
(* One server's group invites: the offer DM, the press on its button, the   *)
(* claim of the member's group_invite_request row, the job on the invite    *)
(* worker's queue, the worker's answer, and the per-request expiry task.    *)
(*                                                                          *)
(* The bot is one asyncio loop: a step of this module is the code between   *)
(* two awaits of one coroutine, and every coroutine may be between awaits   *)
(* while others run.  A bot crash loses every coroutine and keeps the       *)
(* database, the queues and the DMs.                                        *)
(*                                                                          *)
(* A button is the offer it carries, <<member, account>>.  A DM has no      *)
(* expiry and its button routes for ever, so a button once issued may be    *)
(* pressed at any later time: editing it out of the message is a courtesy   *)
(* no property here leans on.  An answer once published may be applied      *)
(* late, more than once or never, which covers redelivery by the broker and *)
(* the answer acked just before the bot dies.                               *)
(*                                                                          *)
(* Time is kept as ages that stop growing at AgeCap, so a behaviour may be  *)
(* of any length.  Jobs and Presses are the supplies of job ids and of      *)
(* concurrent presses; they are the module's bounds.                        *)
(***************************************************************************)
EXTENDS Naturals

CONSTANTS
    Members,    \* Discord members of the server
    Accounts,   \* VRChat accounts a member may link
    Groups,     \* VRChat groups the server may be pointed at
    Jobs,       \* job ids (secrets.token_hex); bounds the claims
    Presses,    \* press coroutines that may run at once
    Timeout,    \* GROUP_INVITE_TIMEOUT_SECONDS
    Cooldown,   \* GROUP_INVITE_COOLDOWN_SECONDS
    AgeCap,     \* ages saturate here
    None

ASSUME TimingAssumption ==
    /\ Timeout \in Nat /\ Cooldown \in Nat /\ AgeCap \in Nat
    /\ Timeout < AgeCap /\ Cooldown <= AgeCap

ASSUME NoneAssumption ==
    None \notin Members \cup Accounts \cup Groups \cup Jobs \cup Nat

VARIABLES
    linked,     \* users.vrc_user_id
    adult,      \* users.verification_status
    row,        \* group_invite_request, one row per member
    job,        \* what each job id was published with
    queue,      \* jobs on the invite worker's queue
    answers,    \* every answer the worker has published
    offer,      \* the member's offer_group_invite coroutine
    press,      \* handle_group_invite_press coroutines
    expiring,   \* _group_invite_expiry_tasks, by the job each waits for
    buttons,    \* offers standing in members' DMs
    cleared,    \* history: pairs <<member, account>> whose last verdict was 18+
    offered,    \* history: the buttons offer_group_invite put in a DM
    asked       \* history: the member's latest claim or its recorded conclusion

users  == <<linked, adult, cleared>>
broker == <<queue, answers>>
dms    == <<buttons, offered>>
vars == <<users, row, job, broker, offer, press, expiring, dms, asked>>

----------------------------------------------------------------------------
(* Vocabulary.  The worker's ten verdicts are folded by how the bot treats  *)
(* them: "sent" is sent, already_member and already_invited; "final" is     *)
(* banned and blocked; "transient" is every one that leaves the button live.*)

WorkerStates == {"sent", "final", "transient"}
States == WorkerStates \cup {"pending", "timed_out", "worker_unreachable"}
\* Defect: a ban is an outcome like any other.
Defect_NothingFinal == {}

SettledStates == {"sent", "final"}
FinalStates == {"final"}
ReofferableStates == SettledStates \ FinalStates

Ages == 0 .. AgeCap
Row == [group : Groups, account : Accounts, job : Jobs, state : States,
        reqAge : Ages, setAge : Ages \cup {None}]
Job == [member : Members, group : Groups, account : Accounts]
Answer == Jobs \X WorkerStates
Button == Members \X Accounts
OfferState == [pc : {"idle", "decide", "send"}, account : Accounts \cup {None}]
PressState == [pc : {"idle", "claim", "publish", "unpublished"},
               button : Button \cup {None}, group : Groups \cup {None},
               job : Jobs \cup {None}]
Idle == [pc |-> "idle", button |-> None, group |-> None, job |-> None]
NoOffer == [pc |-> "idle", account |-> None]
Asked == [group : Groups, age : Ages]

ASSUME NoneIsNoRecord == None \notin Row /\ None \notin Job /\ None \notin Asked

TypeOK ==
    /\ linked \in [Members -> Accounts \cup {None}]
    /\ adult \in [Members -> BOOLEAN]
    /\ row \in [Members -> Row \cup {None}]
    /\ job \in [Jobs -> Job \cup {None}]
    /\ queue \subseteq Jobs
    /\ answers \subseteq Answer
    /\ offer \in [Members -> OfferState]
    /\ press \in [Presses -> PressState]
    /\ expiring \subseteq Jobs
    /\ buttons \subseteq Button
    /\ cleared \subseteq Button
    /\ offered \subseteq Button
    /\ asked \in [Members -> Asked \cup {None}]

----------------------------------------------------------------------------
(* Reading a row. *)

Older(age) == IF age < AgeCap THEN age + 1 ELSE age

\* Defect: a request nobody answered stays pending.
Defect_NoExpiryOnRead(r) == r.state

\* A pending request that nothing answered in time reads as timed out.
EffectiveState(r) ==
    IF r.state = "pending" /\ r.reqAge > Timeout THEN "timed_out" ELSE r.state

\* Defect: the cooldown runs from the request alone.
Defect_SinceRequest(r) == r.reqAge

\* The age the cooldown is measured from: the conclusion, else the request.
Since(r) == IF r.setAge # None THEN r.setAge ELSE r.reqAge

\* Why the member may not ask now; "none" means they may.
Refusal(r, g, forOffer) ==
    IF r = None \/ r.group # g THEN "none"
    ELSE LET s == EffectiveState(r) IN
         IF s \in FinalStates \/ (s \in SettledStates /\ ~forOffer) THEN "settled"
         ELSE IF s = "pending" THEN "pending"
         ELSE IF Since(r) < Cooldown THEN "cooldown"
         ELSE "none"

\* What is left of a row the offer is about to hand out a new button for.
Retired(r, g) ==
    IF r # None /\ r.group = g /\ EffectiveState(r) \in ReofferableStates
    THEN None ELSE r

\* History: a request that has just been concluded restarts its member's age.
Concluded(before, after) ==
    [m \in Members |-> IF before[m] # after[m] /\ asked[m] # None
                       THEN [asked[m] EXCEPT !.age = 0] ELSE asked[m]]

Settled(r, s) == [r EXCEPT !.state = s, !.setAge = 0]

\* Defects: any open row takes the answer; a settled row takes it again.
Defect_TakesAnyJob(r, j) == r # None /\ r.state \in {"pending", "timed_out"}
Defect_TakesTwice(r, j) == r # None /\ r.job = j

\* The row an answer lands on: by job id, and only while it is still open.
Takes(r, j) == r # None /\ r.job = j /\ r.state \in {"pending", "timed_out"}

\* Defect: the button that comes back names no account.
Defect_ReissuedBlank(m, r, s) == IF s \in SettledStates THEN {} ELSE {<<m, None>>}

\* tell_member_about_invite: unless the state is the member's own answer the
\* button comes back, stamped with the account the request was made for.
Reissued(m, r, s) == IF s \in SettledStates THEN {} ELSE {<<m, r.account>>}
----------------------------------------------------------------------------
Init ==
    /\ linked = [m \in Members |-> None]
    /\ adult = [m \in Members |-> FALSE]
    /\ row = [m \in Members |-> None]
    /\ job = [j \in Jobs |-> None]
    /\ queue = {} /\ answers = {} /\ buttons = {} /\ expiring = {}
    /\ offer = [m \in Members |-> NoOffer]
    /\ press = [p \in Presses |-> Idle]
    /\ cleared = {} /\ offered = {}
    /\ asked = [m \in Members |-> None]

(***************************************************************************)
(* The surroundings: time, and the member's verification.  What             *)
(* group_invite_target answers when a coroutine asks (the admin may repoint *)
(* or disable the feature, the plan lapse) is an input of that step.        *)
(***************************************************************************)
Tick ==
    LET Aged(x) == IF x = None THEN None ELSE [x EXCEPT !.age = Older(@)] IN
    /\ row' = [m \in Members |->
         IF row[m] = None THEN None
         ELSE [row[m] EXCEPT !.reqAge = Older(@),
                             !.setAge = IF @ = None THEN None ELSE Older(@)]]
    /\ asked' = [m \in Members |-> Aged(asked[m])]
    /\ UNCHANGED <<users, job, broker, offer, press, expiring, dms>>

\* assign_role(is_18_plus=True) reaches its last step, the offer.
StartOffer(m) ==
    offer' = [offer EXCEPT ![m] = IF @.pc = "idle" THEN [NoOffer EXCEPT !.pc = "decide"] ELSE @]

\* A verification result is stored; an 18+ one goes on to assign_role.
Verdict(m, a, over18) ==
    /\ linked' = [linked EXCEPT ![m] = a]
    /\ adult' = [adult EXCEPT ![m] = over18]
    /\ cleared' = IF over18 THEN cleared \cup {<<m, a>>} ELSE cleared \ {<<m, a>>}
    /\ IF over18 THEN StartOffer(m) ELSE UNCHANGED offer
    /\ UNCHANGED <<row, job, broker, press, expiring, dms, asked>>

\* A member already verified presses Begin Verification again, or joins.
BeginAgain(m) ==
    /\ adult[m] /\ StartOffer(m)
    /\ UNCHANGED <<users, row, job, broker, press, expiring, dms, asked>>

(***************************************************************************)
(* offer_group_invite: the target is read and the plan is awaited, then one *)
(* step reads the identity and the row and retires a spent one, then the    *)
(* DM is awaited.  Every refusal and every failed read ends it in silence.  *)
(* (The target is an input: nothing but that step uses it.)                 *)
(***************************************************************************)
\* member_invite_identity as the offer uses it: the account, and that the
\* verdict stored beside it is 18+.
Offerable(m) == linked[m] # None /\ adult[m]

OfferDecide(m) ==
    /\ offer[m].pc = "decide"
    /\ \/ /\ Offerable(m)
          /\ \E g \in Groups :
               /\ Refusal(row[m], g, TRUE) = "none"
               /\ row' = [row EXCEPT ![m] = Retired(@, g)]
          /\ offer' = [offer EXCEPT ![m] = [pc |-> "send", account |-> linked[m]]]
       \/ offer' = [offer EXCEPT ![m] = NoOffer] /\ UNCHANGED row
    /\ UNCHANGED <<users, job, broker, press, expiring, dms, asked>>

OfferSend(m) ==
    /\ offer[m].pc = "send"
    /\ offer' = [offer EXCEPT ![m] = NoOffer]
    /\ \/ /\ buttons' = buttons \cup {<<m, offer[m].account>>}
          /\ offered' = offered \cup {<<m, offer[m].account>>}
       \/ UNCHANGED dms
    /\ UNCHANGED <<users, row, job, broker, press, expiring, asked>>

(***************************************************************************)
(* handle_group_invite_press.  A press that is refused, or whose reads      *)
(* fail, changes nothing but the words in the DM; when it is told to try    *)
(* again the button it gets back is the one it pressed.                     *)
(***************************************************************************)

\* The press is acknowledged, the seat and the target are read, and Discord is
\* asked afresh whether the member is still in the server.
PressStart(p, b) ==
    /\ press[p].pc = "idle" /\ b \in buttons
    /\ \E g \in Groups : press' = [press EXCEPT ![p] =
         [Idle EXCEPT !.pc = "claim", !.button = b, !.group = g]]
    /\ UNCHANGED <<users, row, job, broker, offer, expiring, dms, asked>>

\* Defect: the button's account is not compared.
Defect_AnyAccount(m, account) == adult[m]

\* The account linked now is 18+, and the one the button was offered for.
Identified(m, account) == adult[m] /\ linked[m] = account

\* begin_group_invite: the row is rewritten and the job built from it.  From here
\* on the press is about its job.
PressClaim(p) ==
    LET c == press[p]  m == c.button[1] IN
    /\ c.pc = "claim"
    /\ linked[m] # None /\ Identified(m, c.button[2])
    /\ Refusal(row[m], c.group, FALSE) = "none"
    /\ \E j \in Jobs :
         /\ job[j] = None
         /\ job' = [job EXCEPT ![j] =
              [member |-> m, group |-> c.group, account |-> linked[m]]]
         /\ row' = [row EXCEPT ![m] =
              [group |-> c.group, account |-> linked[m], job |-> j,
               state |-> "pending", reqAge |-> 0, setAge |-> None]]
         /\ asked' = [asked EXCEPT ![m] = [group |-> c.group, age |-> 0]]
         /\ press' = [press EXCEPT ![p] = [Idle EXCEPT !.pc = "publish", !.job = j]]
    /\ UNCHANGED <<users, broker, offer, expiring, dms>>

\* Any refusal or failed read, before the claim or at it.
PressEnds(p) ==
    /\ press[p].pc = "claim"
    /\ press' = [press EXCEPT ![p] = Idle]
    /\ UNCHANGED <<users, row, job, broker, offer, expiring, dms, asked>>

\* publish_group_invite_job on the executor.  There is no publisher confirm:
\* the broker may have the job when the call fails, and miss it when it
\* returns True.  Only a press that was told True arms the expiry task.
PressPublish(p) ==
    LET j == press[p].job IN
    /\ press[p].pc = "publish"
    /\ \/ /\ press' = [press EXCEPT ![p] = Idle]
          /\ expiring' = expiring \cup {j}
       \/ /\ press' = [press EXCEPT ![p].pc = "unpublished"]
          /\ UNCHANGED expiring
    /\ queue' \in {queue, queue \cup {j}}
    /\ UNCHANGED <<users, row, job, answers, offer, dms, asked>>

\* abandon_group_invite, only while the row is this job's and still pending;
\* a write that fails is logged and leaves the row to expire on read.
Abandoned(r, j) ==
    IF r # None /\ r.job = j /\ r.state = "pending"
    THEN Settled(r, "worker_unreachable") ELSE r

PressUnpublished(p) ==
    LET c == press[p]  m == job[c.job].member IN
    /\ c.pc = "unpublished"
    /\ row' \in {row, [row EXCEPT ![m] = Abandoned(@, c.job)]}
    /\ asked' = Concluded(row, row')
    /\ press' = [press EXCEPT ![p] = Idle]
    /\ UNCHANGED <<users, job, broker, offer, expiring, dms>>

(***************************************************************************)
(* The invite worker, as the bot sees it: a job on its queue is run, the    *)
(* invite goes out before the answer is published and before the job is     *)
(* acked, so a job may be answered, or not, and come back, or not.          *)
(***************************************************************************)
WorkerRuns(j) ==
    /\ j \in queue
    /\ \E s \in WorkerStates, published, again \in BOOLEAN :
         /\ answers' = IF published THEN answers \cup {<<j, s>>} ELSE answers
         /\ queue' = IF again THEN queue ELSE queue \ {j}
    /\ UNCHANGED <<users, row, job, offer, press, expiring, dms, asked>>

\* record_group_invite_result, then the message that tells the member.
ApplyAnswer(a) ==
    LET j == a[1]  s == a[2]  takers == {m \in Members : Takes(row[m], j)} IN
    /\ a \in answers /\ takers # {}
    /\ row' = [m \in Members |-> IF m \in takers THEN Settled(row[m], s) ELSE row[m]]
    /\ asked' = Concluded(row, row')
    /\ buttons' = buttons \cup UNION {Reissued(m, row[m], s) : m \in takers}
    /\ UNCHANGED <<offered, users, job, broker, offer, press, expiring>>

\* expire_group_invite_if_unanswered: the wait is over, and the row is settled
\* and its member told only if it is still this job's and still pending.
Expire(j) ==
    LET late == {m \in Members :
                   row[m] # None /\ row[m].job = j /\ row[m].state = "pending"} IN
    /\ j \in expiring
    /\ \A m \in late : row[m].reqAge >= Timeout
    /\ expiring' = expiring \ {j}
    /\ row' = [m \in Members |->
                 IF m \in late THEN Settled(row[m], "timed_out") ELSE row[m]]
    /\ asked' = Concluded(row, row')
    /\ buttons' = buttons \cup UNION {Reissued(m, row[m], "timed_out") : m \in late}
    /\ UNCHANGED <<offered, users, job, broker, offer, press>>

\* The bot process dies: every coroutine and task is lost.
Crash ==
    /\ offer' = [m \in Members |-> NoOffer]
    /\ press' = [p \in Presses |-> Idle]
    /\ expiring' = {}
    /\ UNCHANGED <<users, row, job, broker, dms, asked>>
----------------------------------------------------------------------------
MemberStep(m) ==
    \/ \E a \in Accounts, over18 \in BOOLEAN : Verdict(m, a, over18)
    \/ BeginAgain(m) \/ OfferDecide(m) \/ OfferSend(m)

PressStep(p) ==
    \/ \E b \in buttons : PressStart(p, b)
    \/ PressClaim(p) \/ PressEnds(p)
    \/ PressPublish(p) \/ PressUnpublished(p)

Next ==
    \/ Tick \/ Crash
    \/ \E m \in Members : MemberStep(m)
    \/ \E p \in Presses : PressStep(p)
    \/ \E j \in Jobs : WorkerRuns(j) \/ Expire(j)
    \/ \E a \in answers : ApplyAnswer(a)

Spec == Init /\ [][Next]_vars

\* Clocks advance; nothing else about the bot or its peers is assumed.
FairSpec == Spec /\ WF_vars(Tick)

----------------------------------------------------------------------------
(* Correctness. *)

Claims(m) == \E j \in Jobs : job[j] = None /\ job'[j] # None /\ job'[j].member = m

\* An invite is only ever claimed for an account that offer_group_invite put a
\* button out for and whose last verdict is 18+: neither an old button, nor a
\* re-link, nor a button handed back by a failed request reaches another
\* account (member_invite_identity and the fingerprint on the button).
OfferedAndCleared ==
    [][\A m \in Members, j \in Jobs :
         job[j] = None /\ job'[j] # None /\ job'[j].member = m
           => <<m, job'[j].account>> \in offered \cap cleared]_vars

\* The verdict a row shows is one the worker gave about that row's own job,
\* however late, repeated or reordered the answers are.
AnswerIsOurs ==
    \A m \in Members : row[m] # None /\ row[m].state \in WorkerStates
                         => <<row[m].job, row[m].state>> \in answers

\* A settled row is neither overwritten by a straggler nor claimed again: it
\* leaves only through a new offer or with the server's group.
SettledStands ==
    [][\A m \in Members :
         row[m] # None /\ row[m].state \in SettledStates =>
           \/ row'[m] = None
           \/ row'[m].group # row[m].group
           \/ row'[m].job = row[m].job /\ row'[m].state = row[m].state]_row

\* A ban or a block recorded for the server's group is never offered away.
FinalStands ==
    [][\A m \in Members :
         row[m] # None /\ row[m].state = "final" => row'[m] # None]_row

\* Whatever mixture of offers, retired rows, answers, timeouts and presses
\* lies between, two claims of a member in a row on one group are a cooldown
\* apart, counted from the later of the first claim and its recorded conclusion.
\* A claim on another group in between takes the row's place and the cooldown
\* with it (one row per member and server, begin_group_invite), so of claims on
\* g1, g2 and g1 again no two need be apart.
ClaimsSpaced ==
    [][\A m \in Members :
         Claims(m) /\ asked[m] # None /\ asked[m].group = asked'[m].group
           => asked[m].age >= Cooldown]_vars

\* Waiting ends: a member told "one is in flight" or "too soon" is, once the
\* clocks have run, answered or free to ask, though the worker never answers
\* and the bot dies and takes the expiry task with it.
Waits(m, g) == Refusal(row[m], g, FALSE) \in {"pending", "cooldown"}

WaitingEnds == \A m \in Members, g \in Groups : Waits(m, g) ~> ~Waits(m, g)
============================================================================
