----------------------------- MODULE GroupSeats -----------------------------
(***************************************************************************)
(* A server's VRChat group and the seat the bot spends on it: the saved     *)
(* group and its claim code, the setup check and the worker that joins, the *)
(* lease on one invite account, the sweep that takes a seat back from a     *)
(* server that stopped paying, and the leave job and its answer.            *)
(*                                                                          *)
(* Every account has a queue of its own, read in order by one worker, which *)
(* acts on VRChat before it answers and is handed a job again when its      *)
(* answer was not published or its ack was lost.  The answers of all the    *)
(* workers come back on one queue and may be delivered again, and are acked *)
(* before a coroutine handles them; they are a set here from which nothing  *)
(* is taken, so that each may be handled in any order, again, or never.     *)
(* Anything that awaits the broker or a pause is two steps.  A plan may be  *)
(* bought or lost, a grace period end, and a code be put in a description   *)
(* or taken out, between any two looks at it, so what is found is a choice. *)
(*                                                                          *)
(* Jobs is the supply of job ids and bounds the jobs begun; Codes is the    *)
(* supply of claim codes and bounds the groups saved.  The enable switch,   *)
(* the permissions shown on the dashboard and who pressed what are left     *)
(* out; so is an account that leaves the roster.                            *)
(***************************************************************************)
EXTENDS Naturals, FiniteSets, Sequences

CONSTANTS
    Guilds, Groups, Accounts, Seats, Jobs, Codes, None,
    Legacy      \* the guilds that were set up before leases were kept

ASSUME SeatsAssumption == Seats \in Nat \ {0} /\ IsFiniteSet(Guilds)
ASSUME LegacyGuilds == Legacy \subseteq Guilds
ASSUME NoneIsNothing == None \notin Groups \cup Accounts \cup Jobs \cup Codes

VARIABLES
    config,      \* group_invite_config, per guild
    lease,       \* group_seat_lease, per guild, or no row
    job,         \* what each job id was drawn for
    outbox,      \* jobs on the executor, being published
    unsent,      \* setup checks whose publish has failed
    queue,       \* per account, its worker's queue
    again,       \* accounts whose next job has been delivered before
    results,     \* the workers' answers: <<job, verdict>>
    sweep,       \* seat_sweep_pass, or none under way
    fresh,       \* claim codes not drawn yet
    inside,      \* <<account, group>>: the bot is in the group
    proved,      \* history: codes that were in place when a worker ran their check
    outdated     \* history: reclaims followed by a setup check of the guild

jobs  == <<job, outbox, unsent>>
work  == <<queue, again, results>>
vars  == <<config, lease, jobs, work, sweep, fresh, inside, proved, outdated>>

SetupStates == {"unverified", "checking", "worker_unreachable", "seat_released",
                "ready", "refused"}
Config == [group : Groups \cup {None}, code : Codes \cup {None},
           state : SetupStates, verified : BOOLEAN,
           checking : Jobs \cup {None}, joined : Accounts \cup {None}]
Lease == [account : Accounts, release : Jobs \cup {None},
          paid : BOOLEAN, released : BOOLEAN]
Job == [kind : {"verify", "reclaim", "displaced"}, guild : Guilds,
        group : Groups, account : Accounts, code : Codes \cup {None},
        requireCode : BOOLEAN]
Verdicts == {"ready", "refused", "left", "leave_failed"}
Candidate == [guild : Guilds, group : Groups, paid : BOOLEAN,
              leased : BOOLEAN, joined : Accounts \cup {None}]
Ask == [guild : Guilds, group : Groups, account : Accounts]
Sweep == [todo : SUBSET Candidate, asking : Ask \cup {None}]

ASSUME NoneIsNoRecord == None \notin Lease \cup Job \cup Ask \cup Sweep

TypeOK ==
    /\ config \in [Guilds -> Config]
    /\ lease \in [Guilds -> Lease \cup {None}]
    /\ job \in [Jobs -> Job \cup {None}]
    /\ outbox \subseteq Jobs /\ unsent \subseteq Jobs
    /\ queue \in [Accounts -> Seq(Jobs)]
    /\ again \subseteq Accounts
    /\ results \subseteq Jobs \X Verdicts
    /\ sweep \in Sweep \cup {None}
    /\ fresh \subseteq Codes
    /\ inside \subseteq Accounts \X Groups
    /\ proved \subseteq Codes
    /\ outdated \subseteq Jobs
----------------------------------------------------------------------------
\* A row that was never written, and one whose group has been taken off it.
Blank == [group |-> None, code |-> None, state |-> "unverified",
          verified |-> FALSE, checking |-> None, joined |-> None]

\* A setup that was finished, by an account that may not have been noted.
OldSetup == [group : Groups, code : Codes, state : {"ready"}, verified : {TRUE},
             checking : {None}, joined : Accounts \cup {None}]

OldCodes == {config[g].code : g \in Legacy}

Init ==
    /\ config \in [Guilds -> OldSetup \cup {Blank}]
    /\ \A g \in Guilds : config[g] = Blank <=> g \notin Legacy
    /\ \A g, h \in Legacy :
         g # h => config[g].group # config[h].group /\ config[g].code # config[h].code
    /\ \E by \in [Legacy -> Accounts] :
         /\ \A g \in Legacy : config[g].joined \in {by[g], None}
         /\ inside = {<<by[g], config[g].group>> : g \in Legacy}
    /\ fresh = Codes \ OldCodes /\ proved = OldCodes
    /\ lease = [g \in Guilds |-> None]
    /\ job = [j \in Jobs |-> None]
    /\ outbox = {} /\ unsent = {}
    /\ queue = [a \in Accounts |-> <<>>]
    /\ again = {} /\ results = {} /\ sweep = None
    /\ outdated = {}

\* A moderator removes the bot.
Kick(a, gr) ==
    /\ <<a, gr>> \in inside
    /\ inside' = inside \ {<<a, gr>>}
    /\ UNCHANGED <<config, lease, jobs, work, sweep, fresh, proved, outdated>>

(***************************************************************************)
(* Seats.                                                                  *)
(***************************************************************************)
Live(g) == lease[g] # None /\ ~lease[g].released

\* Defect: only a seat that was joined is counted.
Defect_CountsJoined(a) ==
    Cardinality({g \in Guilds : Live(g) /\ lease[g].account = a /\ config[g].verified})

\* seat_usage counts leases, not joined groups.
Usage(a) == Cardinality({g \in Guilds : Live(g) /\ lease[g].account = a})

\* invite_account_for_guild: none, the one that is leased, or on an
\* installation of one account that one.
AccountsOf(g) ==
    IF lease[g] # None THEN {a \in Accounts : Live(g) /\ lease[g].account = a}
    ELSE {a \in Accounts : Accounts = {a}}

\* The candidates of assign_invite_account; equal loads are told apart by id.
LeastLoaded ==
    {a \in Accounts : /\ Usage(a) < Seats
                      /\ \A b \in Accounts : Usage(a) <= Usage(b)}

\* assign_invite_account: sticky, else the least loaded with room, else none.
Assignable(g) == IF AccountsOf(g) # {} THEN AccountsOf(g) ELSE LeastLoaded

\* Defect: a lease already on this account is left exactly as it is.
Defect_KeepsRelease(l, a) ==
    IF l # None /\ l.account = a /\ ~l.released THEN l
    ELSE [account |-> a, release |-> None, released |-> FALSE,
          paid |-> l # None /\ l.paid]

\* _record_seat_lease: a reclaim the guild was waiting on is forgotten, and
\* when it was last seen paying is kept.
Reserved(l, a) ==
    IF l # None /\ l.account = a /\ ~l.released THEN [l EXCEPT !.release = None]
    ELSE [account |-> a, release |-> None, released |-> FALSE,
          paid |-> l # None /\ l.paid]

(***************************************************************************)
(* The dashboard.                                                          *)
(***************************************************************************)
\* Jobs are drawn from the supply and handed to the executor.
Begin(j, record) ==
    /\ job[j] = None
    /\ job' = [job EXCEPT ![j] = record]
    /\ outbox' = outbox \cup {j}

Claimable(g, gr) == gr # None => \A h \in Guilds \ {g} : config[h].group # gr

\* write_dashboard_settings and save_group_invite_config: whatever was learned
\* about the old group goes, a new one gets a fresh code, and the bot is asked
\* to leave a group it has got into.
SaveGroup(g, gr) ==
    /\ gr # config[g].group /\ Claimable(g, gr)
    /\ IF gr = None
       THEN config' = [config EXCEPT ![g] = Blank] /\ UNCHANGED fresh
       ELSE \E c \in fresh :
              /\ fresh' = fresh \ {c}
              /\ config' = [config EXCEPT ![g] = [Blank EXCEPT !.group = gr, !.code = c]]
    /\ IF config[g].verified /\ AccountsOf(g) # {}
       THEN \E j \in Jobs, a \in AccountsOf(g) :
              Begin(j, [kind |-> "displaced", guild |-> g, group |-> config[g].group,
                        account |-> a, code |-> None, requireCode |-> FALSE])
       ELSE UNCHANGED <<job, outbox>>
    /\ UNCHANGED <<lease, unsent, work, sweep, inside, proved, outdated>>

\* request_group_verification up to its publish: the seat is assigned first,
\* though there be no group to check, and the row is stamped with the job. No
\* await lies between the count of an account's seats and the lease's write, and
\* one process does both, so "two guilds assigning in the same instant"
\* (assign_invite_account) are two steps, one after the other.
Check(g) ==
    /\ \E a \in Assignable(g) :
         /\ lease' = [lease EXCEPT ![g] = Reserved(@, a)]
         /\ \/ config[g].group = None /\ UNCHANGED <<config, job, outbox>>
            \/ /\ config[g].group # None
               /\ \E j \in Jobs :
                    /\ Begin(j, [kind |-> "verify", guild |-> g,
                                 group |-> config[g].group, account |-> a,
                                 code |-> config[g].code,
                                 requireCode |-> ~config[g].verified])
                    /\ config' = [config EXCEPT ![g].state = "checking",
                                                ![g].checking = j]
    /\ outdated' = outdated \cup
         {j \in Jobs : job[j] # None /\ job[j].kind = "reclaim" /\ job[j].guild = g}
    /\ UNCHANGED <<unsent, work, sweep, fresh, inside, proved>>

Enqueued(j) == [queue EXCEPT ![job[j].account] = Append(@, j)]

\* publish_group_invite_job: the broker may have the job when the call fails.
Publish(j) ==
    /\ j \in outbox
    /\ outbox' = outbox \ {j}
    /\ \/ queue' = Enqueued(j) /\ UNCHANGED unsent
       \/ /\ queue' \in {queue, Enqueued(j)}
          /\ unsent' = IF job[j].kind = "verify" THEN unsent \cup {j} ELSE unsent
    /\ UNCHANGED <<config, lease, job, again, results, sweep, fresh, inside, proved, outdated>>

\* abandon_group_verification, only while it is still this job's check; a
\* write that fails is logged and leaves the row to expire on read.
AbandonCheck(j) ==
    LET g == job[j].guild IN
    /\ j \in unsent
    /\ unsent' = unsent \ {j}
    /\ \/ /\ config[g].checking = j
          /\ config' = [config EXCEPT ![g].state = "worker_unreachable",
                                      ![g].checking = None]
       \/ UNCHANGED config
    /\ UNCHANGED <<lease, job, outbox, work, sweep, fresh, inside, proved, outdated>>

(***************************************************************************)
(* The invite worker: one job at a time, acting before it answers.         *)
(***************************************************************************)
Here(j) == <<job[j].account, job[j].group>>

\* Defect: no proof is asked for a group the bot is in already.
Defect_CodeOnlyToJoin(j, shown) == job[j].requireCode /\ Here(j) \notin inside => shown

\* claim_code_present, where the job asks for it.
Admitted(j, shown) == job[j].requireCode => shown

\* verify_group_setup: what it answers, and where the bot is afterwards.  It
\* may find no session, no group, a ban or no code before it joins, and no
\* permission, or no answer, after it has.
Verified(j, shown) ==
    {<<"refused", inside>>} \cup
      {<<v, inside \cup {Here(j)}>> :
         v \in IF Admitted(j, shown) THEN {"ready", "refused"} ELSE {}}

\* leave_group: already being out counts as left.
Left(j) ==
    {<<v, inside \ {Here(j)}>> : v \in {"left", "leave_failed"}}
      \cup {<<"leave_failed", inside>>}

Outcomes(j, shown) == IF job[j].kind = "verify" THEN Verified(j, shown) ELSE Left(j)

\* process_job: answered and acked; answered, the ack lost; or not answered,
\* and so handed out once more, or dropped if it had been before.
Work(a, shown) ==
    /\ queue[a] # <<>>
    /\ LET j == Head(queue[a])
           done == [queue EXCEPT ![a] = Tail(@)]
       IN
       /\ shown => job[j].code # None
       /\ \E o \in Outcomes(j, shown) :
            /\ inside' = o[2]
            /\ \/ results' = results \cup {<<j, o[1]>>} /\ queue' = done /\ again' = again \ {a}
               \/ results' = results \cup {<<j, o[1]>>} /\ again' = again \cup {a} /\ UNCHANGED queue
               \/ a \notin again /\ again' = again \cup {a} /\ UNCHANGED <<queue, results>>
               \/ a \in again /\ again' = again \ {a} /\ queue' = done /\ UNCHANGED results
       /\ proved' = IF shown THEN proved \cup {job[j].code} ELSE proved
    /\ UNCHANGED <<config, lease, jobs, sweep, fresh, outdated>>

(***************************************************************************)
(* handle_group_invite_result.                                             *)
(***************************************************************************)
Awaited(j) == config[job[j].guild].checking = j

\* record_group_verification_result.
StoreSetup(r) ==
    LET j == r[1]  g == job[j].guild IN
    /\ r \in results /\ job[j].kind = "verify" /\ Awaited(j)
    /\ config' = [config EXCEPT ![g].state = r[2], ![g].checking = None,
                                ![g].joined = job[j].account,
                                ![g].verified = @ \/ r[2] = "ready"]
    /\ UNCHANGED <<lease, jobs, work, sweep, fresh, inside, proved, outdated>>

\* Defect: the setup's verdict is cleared with the rest.
Defect_MarksNoState(g) ==
    config' = [config EXCEPT ![g].state = None, ![g].checking = None,
                             ![g].joined = None]

\* mark_group_seat_released, in a transaction after release_seat's own.
MarkReleased(g) ==
    config' = [config EXCEPT ![g].state = "seat_released", ![g].checking = None,
                             ![g].joined = None]

\* handle_seat_release_result: only a reclaim the lease still waits on.
StoreLeave(r) ==
    LET j == r[1]  g == job[j].guild IN
    /\ r \in results /\ job[j].kind = "reclaim" /\ r[2] = "left"
    /\ lease[g] # None /\ lease[g].release = j
    /\ lease' = [lease EXCEPT ![g].released = TRUE]
    /\ MarkReleased(g) \/ UNCHANGED config
    /\ UNCHANGED <<jobs, work, sweep, fresh, inside, proved, outdated>>

(***************************************************************************)
(* seat_sweep_pass.                                                        *)
(***************************************************************************)
\* A reservation nobody has finished; it may be old enough to expire.
Unused(g) == Live(g) /\ ~config[g].verified

\* expire_stale_reservations and load_seat_sweep_candidates, with no await
\* between them; a candidate whose lease was released is passed over.
SweepStart ==
    /\ sweep = None
    /\ \E old \in SUBSET {g \in Guilds : Unused(g)} :
         /\ lease' = [g \in Guilds |->
              IF g \in old THEN [lease[g] EXCEPT !.released = TRUE] ELSE lease[g]]
         /\ sweep' = [asking |-> None, todo |->
              {[guild |-> g, group |-> config[g].group, leased |-> lease[g] # None,
                paid |-> lease[g] # None /\ lease[g].paid, joined |-> config[g].joined] :
                 g \in {h \in Guilds \ old :
                          config[h].group # None /\ (lease[h] # None => Live(h))}}]
    /\ UNCHANGED <<config, jobs, work, fresh, inside, proved, outdated>>

\* The loop goes on when its pause is over and the leave it asked is published.
Between ==
    /\ sweep # None /\ sweep.asking = None
    /\ \A j \in outbox : job[j].kind # "reclaim"

\* The one candidate at a time the loop is at.
Turn(s) == Between /\ s \in sweep.todo

Passed(s) == [sweep EXCEPT !.todo = @ \ {s}]

\* backfill_seat_lease for a candidate without a row.
Backfill(s) ==
    IF s.leased THEN {lease[s.guild]}
    ELSE {Reserved(lease[s.guild], a) :
            a \in IF s.joined # None THEN {s.joined} ELSE AccountsOf(s.guild)}

\* An account to serve the guild is wanting, or the plan is unknown or still in
\* its grace period, or its clock is started or kept current (touch_premium_seen).
SweepLook(s) ==
    /\ Turn(s)
    /\ sweep' = Passed(s)
    /\ \/ Backfill(s) = {} /\ UNCHANGED lease
       \/ \E l \in Backfill(s) :
            \/ lease' = [lease EXCEPT ![s.guild] = l]
            \/ lease' = [lease EXCEPT ![s.guild] = [l EXCEPT !.paid = TRUE]]
    /\ UNCHANGED <<config, jobs, work, fresh, inside, proved, outdated>>

\* request_seat_release: the lease notes which reclaim it waits on, then the
\* job is published.
Reclaim(ask) ==
    \E j \in Jobs :
      /\ Begin(j, [kind |-> "reclaim", guild |-> ask.guild, group |-> ask.group,
                   account |-> ask.account, code |-> None, requireCode |-> FALSE])
      /\ lease' = [lease EXCEPT ![ask.guild].release = j]

\* A guild once seen paying has lapsed for longer than the grace period: asked
\* at once, or after a pause if the pass has asked before, of one of these
\* guilds or of another.
SweepLapsed(s) ==
    /\ Turn(s)
    /\ s.paid
    /\ \E a \in AccountsOf(s.guild) :
         LET ask == [guild |-> s.guild, group |-> s.group, account |-> a] IN
         \/ sweep' = [Passed(s) EXCEPT !.asking = ask] /\ UNCHANGED <<lease, job, outbox>>
         \/ sweep' = Passed(s) /\ Reclaim(ask)
    /\ UNCHANGED <<config, unsent, work, fresh, inside, proved, outdated>>

SweepAsk ==
    /\ sweep # None /\ sweep.asking # None
    /\ Reclaim(sweep.asking)
    /\ sweep' = [sweep EXCEPT !.asking = None]
    /\ UNCHANGED <<config, unsent, work, fresh, inside, proved, outdated>>

\* The list is through, or enough has been asked, or the pass has failed.
SweepEnd ==
    /\ Between
    /\ sweep' = None
    /\ UNCHANGED <<config, lease, jobs, work, fresh, inside, proved, outdated>>

\* The bot dies, and with it what is only in its memory.
Crash ==
    /\ outbox' = {} /\ unsent' = {} /\ sweep' = None
    /\ UNCHANGED <<config, lease, job, work, fresh, inside, proved, outdated>>
----------------------------------------------------------------------------
Next ==
    \/ \E g \in Guilds : Check(g)
    \/ \E g \in Guilds, gr \in Groups \cup {None} : SaveGroup(g, gr)
    \/ \E a \in Accounts, gr \in Groups : Kick(a, gr)
    \/ \E j \in Jobs : Publish(j) \/ AbandonCheck(j)
    \/ \E a \in Accounts, shown \in BOOLEAN : Work(a, shown)
    \/ \E r \in results : StoreSetup(r) \/ StoreLeave(r)
    \/ \E s \in (IF sweep = None THEN {} ELSE sweep.todo) : SweepLook(s) \/ SweepLapsed(s)
    \/ SweepStart \/ SweepAsk \/ SweepEnd \/ Crash

Spec == Init /\ [][Next]_vars
----------------------------------------------------------------------------
(* Correctness. *)

\* A group counts as verified for a guild only if the code drawn when this
\* guild saved this group stood in its description when a worker checked: not
\* through the bot being inside for another guild, nor by a verdict about an
\* older group, nor by a check that was answered late or twice
\* (begin_group_verification, record_group_verification_result).
SetupProven ==
    \A g \in Guilds : config[g].verified => config[g].code \in proved

\* An installation of several accounts.
Several == \A a \in Accounts : Accounts # {a}

\* Where there are several accounts, none is leased to more guilds than it has
\* seats, but for those set up before leases were kept. bot.py,
\* assign_invite_account: "Reserve a seat for this guild and return the
\* account, or None if full". The sweep gives an older guild its lease on the
\* account that joined for it without a look at the seats (backfill_seat_lease),
\* and an account that is alone is never full.
CapHeld ==
    Several => \A a \in Accounts :
      Cardinality({g \in Guilds \ Legacy : Live(g) /\ lease[g].account = a}) <= Seats

Freed(g) == Live(g) /\ lease'[g].released

\* Only an unfinished reservation expires; any other seat is taken back by the
\* answer to a reclaim after which the guild has not checked its setup again:
\* a leave that was asked before, however late or often it is answered, frees
\* nothing (handle_seat_release_result, _record_seat_lease).
ReclaimIsCurrent ==
    [][\A g \in Guilds : Freed(g) =>
         \/ SweepStart /\ ~config[g].verified
         \/ \E r \in results : /\ job[r[1]].kind = "reclaim" /\ job[r[1]].guild = g
                               /\ r[2] = "left" /\ r[1] \notin outdated]_lease
============================================================================
