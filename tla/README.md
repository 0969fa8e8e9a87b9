# VRCVerify: verification models

VRCVerify is a Discord bot that links members to VRChat accounts, checks with
VRChat that they are 18+, hands out a role, and (premium) invites verified
members into the server's VRChat group.  It runs as several processes around
RabbitMQ, one SQL database and Discord: the bot with its API (`src/src/bot.py`,
`bot_api.py`), the verification worker (`vrc_online_checker.py`), one invite
worker per VRChat account (`vrc_group_inviter.py`), and a dashboard
(`src/src/dashboard/`).  The two workers share `vrc_session.py`.

This directory holds TLA+ modules of the parts whose behaviour depends on the
order of things, TLC configurations that check them on small instances, and
TLAPS proofs.

## Inventory

| Component (lines of bot.py unless said) | State | Operations | What is hard | What makes it correct | Module |
|---|---|---|---|---|---|
| **Member group invites** (724-850, 965-1030, 3387-3770, 5595-6130, 6984-7052, 7217-7405) | `group_invite_request` row per server and member; DMs with buttons; job and result queues; expiry tasks | offer, press, claim, publish, abandon, record answer, expire, retire | presses and answers interleave at every `await`; late, repeated, lost answers; bot crashes; buttons live for ever | invites only for the offered, 18+ account; a cooldown between two claims in a row on one group; a settled or final row stands; nobody waits for ever | `GroupInvite` |
| **Verification pipeline** (5276-5543, 6333-6457, 7411-7617; `vrc_online_checker.py`) | `users`, `pending_verifications`, two queues | begin, modal, Verify button, check, store, clean up | results out of order, repeated, lost; re-check against code; check-then-act on ownership | a link is proven by a code; the verdict is about the account linked; old codes link nothing | `Verification` |
| **Verified role** (6131-6317, 10509-10536) | Discord roles | assign_role | acts on the verdict it was started with, across awaits; lost in a crash | only who has proven an 18+ account gets the role | `VerifiedRole` |
| **Group setup** (3029-3385, 7055-7142; worker 451-642) | `group_invite_config`, claim codes | save, begin, abandon, record | unique group id under concurrent claims; stale setup verdicts | one server per group; a verdict is about the stored group | `GroupSeats` |
| **Seats** (3783-4435) | `group_seat_lease`, accounts' capacities | assign, reserve, sweep, leave, release | leave answers against a resubscription; two transactions; capacity | of several accounts none over its seats; a live seat is not freed by an old answer | `GroupSeats` |
| **Invite worker** (`vrc_group_inviter.py` 290-1147) | the job in hand, one session, the redelivered flag | deliver, check, create, probe, publish, ack, nack | publishes after it acts; calls fail in the middle; sessions end; redelivery | bounded calls per job; nobody blamed for what is not so; acked means answered; jobs end | `InviteWorker` |
| **VRChat session** (`vrc_session.py` 303-738) | client, stored cookie, next attempt | login, persist, invalidate, relogin loop | relogin thread against the consumer thread; a login that raises | one session in use and on disk; a lost session comes back | `VRCSession` |
| **Activity log** (2931-2985, 4652-4812) | per-server buffers | add, drain, flush, carry losses | lines added while a batch is posted; full buffers; channels deleted or changed | entries are shown once, in order, or counted lost | `ActivityLog`, `LossyLog` |
| **Premium gate** (2202-2920) | two two-layer caches | resolve, invalidate, guess | stale or failed reads, guesses | a guess never becomes the fallback | `StatusCache`, `DiscordPlan`, `CardPlan` |
| **Stripe mirror** (9899-10215; `dashboard/stripe_events.py`) | subscription rows, event ledger | apply event | duplicates, disorder, concurrent delivery | each event applied once; older never overwrites newer; what is answered is on file; no trial for a server known to have paid | `StripeMirror`, `CardPlan` |
| **Panels** (8049-8575, 9053-9330) | panel location per server, button version | post, move, replace, refresh | awaits between read and write; failures half way; releases and rollbacks | one live panel, the tracked one; its buttons work | `Panels` |
| **Panel nudge** (5106-5220, 7623-7730) | `guild_onboarding` rows | start, complete, sweep | crash between mark and send; a limit before a filter | one DM per started clock; every due row is reached | `PanelNudge` |
| **Dashboard saves** (1933-2090, 9598-9889; `dashboard/app.py`, `bot_api.py`) | four tables, `dashboard_audit` | validate, write, release, restyle, audit | awaits and failures between transactions; two admins | the audit tells all; it lists what did not change only after a swallowed failure; only what was submitted moves | `DashboardSettings` |
| **Other notices** (milestone, cutover: 7733-8008) | mark-before-send rows | sweep, mark, send | as the nudge | at most one of each | – |
| **Bot API gate** (`bot_api.py` 396-652) | spent tokens, windows | authenticate, charge | full memory, expiry | a token is spent once | – |
| **Dashboard sessions** (`dashboard/sessions.py`, `app.py`) | session rows | begin, complete, rotate, destroy | login used twice, concurrent use | a login state is used once | – |

Components with no state of their own (page views, locales, configuration,
log formatting, the deployment scripts) are listed in `PROJECT.json` and are
not modelled, but for what the subscription page offers, which is in `CardPlan`.

How they interact: the bot and the workers only by queues (at least once, any
order of answers); the dashboard by HTTP requests to the bot, which owns the
database; bot coroutines by the database and by memory read across awaits; the
worker's two threads by the session object.

## Order of work

The order is by what a member or an admin would lose if it went wrong.

| # | Modules | Covers | Composes |
|---|---|---|---|
| 1 | `GroupInvite`, `GroupInviteProofs` | member group invites | – |
| 2 | `Verification`, `VerificationProofs` | from Begin Verification to a stored link | – |
| 3 | `VerifiedRole` (proofs in `VerificationProofs`) | the role that follows a stored verdict | extends `Verification` |
| 4 | `GroupSeats`, `GroupSeatsProofs` | group setup, leases, the sweep, leaves, the worker's setup and leave jobs | setup and seats in one module: they share jobs, queues and the row `group_invite_config` |
| 5 | `LossyLog`, `ActivityLog`, `DiscordPlan`, `ActivityLogProofs` | the log buffer behind the plan | `ActivityLog` extends `DiscordPlan` and implements `LossyLog` |
| 6 | `StatusCache`, `StripeMirror`, `CardPlan`, `CardPlanProofs` | webhook, rows, cache, trial, checkout | `CardPlan` composes the mirror and a cache; `DiscordPlan` uses the same cache module |
| 7 | `Panels`, `PanelsProofs` | the instruction panel | – |
| 8 | `VRCSession`, `InviteWorker`, `InviteWorkerProofs` | an invite job over the session | the worker extends the session |
| 9 | `PanelNudge` (proofs in `PanelsProofs`) | the nudge | – |
| 10 | `DashboardSettings`, `DashboardSettingsProofs` | a save and its audit | – |

All of it is written.  What could follow is under "Not modelled".

## What is modelled

### `GroupInvite`

One server, its members, the bot's coroutines and an invite worker seen from
the bot.  A step is the code between two awaits of one coroutine.

| State | Code |
|---|---|
| `linked`, `adult` | `users.vrc_user_id`, `users.verification_status` |
| `row` | `group_invite_request`, one row per member of the server |
| `job`, `queue`, `answers` | the job dictionary, the invite queue, the result queue |
| `offer`, `press`, `expiring` | coroutines in `offer_group_invite`, `handle_group_invite_press`, `expire_group_invite_if_unanswered` |
| `buttons` | offers standing in DMs, `<<member, account>>` (the custom id's fingerprint) |
| `cleared`, `offered`, `asked` | histories the properties speak of |

| Actions | Code |
|---|---|
| `Verdict`, `BeginAgain`, `StartOffer` | `assign_role` reaching its offer |
| `OfferDecide`, `OfferSend` | `offer_group_invite` up to its DM, with `retire_group_invite_request`, and the DM |
| `PressStart`, `PressClaim`, `PressEnds` | `handle_group_invite_press` up to `begin_group_invite` |
| `PressPublish`, `PressUnpublished` | `publish_group_invite_job`, `abandon_group_invite` |
| `WorkerRuns` | a run of the job: it may answer or not, and be redelivered or not |
| `ApplyAnswer`, `Expire` | `record_group_invite_result`, `expire_group_invite_if_unanswered`, with `tell_member_about_invite` |
| `Tick`, `Crash` | clocks; the bot's process dies |

Abstractions.  A member has at most one offer coroutine: a second would send
the same DM again.  What `group_invite_target` answers is an input of the step
that uses it, since the admin and the plan may change it between two reads; a
press uses it after its awaits, so the group rides in `press`.  The worker's ten
verdicts are folded into `sent`, `final` and `transient`, which is how the bot tells
them apart.  An answer is never taken out of `answers`, which covers late,
repeated and lost delivery.  A button once issued can always be pressed, which
covers every order of message edits.  `begin_group_invite` reads and writes in
one step, as its transaction does.

### `Verification` and `VerifiedRole`

`user`, `pending` and `issued` are the tables; `modals` the open modal;
`requests` and `results` the two queues, as sets because the first is a
priority queue and each result gets a coroutine that first awaits Discord.
`BeginRecheck`, `BeginNew` are `process_verification`; `Submit` the modal's
`on_submit`; `PressVerify` the Verify button; `CheckerAnswers`,
`CheckerGivesUp` `process_verification_request` with its retries and its ack;
`StoreRecheck`, `StoreCode`, `DropExpired`, `DropResult` the branches of
`handle_verification_result`; `Sweep` a round of `expired_pending_cleanup_task`;
`Lapse` a code's ten minutes running out.  `ShowCode` is a person with a VRChat
account, who may be anybody.  A nickname and every message to the member are
left out: nothing else reads them.

`VerifiedRole` adds `assigning`, the `assign_role` coroutines, each with the
verdict it was started with, and `roles`.  `Verdict` is a stored result that
goes on to `assign_role`, `Reassign` the two other callers, `AssignRole` its
end, `Crash` the loss of all of them.  No branch of `assign_role` takes the role
away, and none of the model's does.  The unverified role, a courtesy removed
after a delay, is left out.

### `GroupSeats`

| State | Code |
|---|---|
| `config` | `group_invite_config`: group, claim code, state, `verified_at`, the job waited for, the account that joined |
| `lease` | `group_seat_lease`: account, reclaim waited for, whether seen paying, released |
| `outbox`, `unsent` | jobs handed to the executor; checks whose publish raised |
| `queue`, `again` | each account's queue and its redelivered flag |
| `results`, `inside` | the workers' answers; which account is in which group |
| `sweep` | the local variables of `seat_sweep_pass` |

`SaveGroup` is `write_dashboard_settings` with `save_group_invite_config` and
the leave for a displaced group; `Check` is `request_group_verification`
(`assign_invite_account`, `_record_seat_lease`, `begin_group_verification`);
`Publish` and `AbandonCheck` its publish and its failure; `Work` one delivery
in `process_job` with `verify_group_setup` or `leave_group`; `StoreSetup` and
`StoreLeave` `record_group_verification_result` and
`handle_seat_release_result`; `SweepStart`, `SweepLook`, `SweepLapsed`,
`SweepAsk`, `SweepEnd` the stretches of `seat_sweep_pass`; `Kick` a moderator;
`Crash` the bot's death.

`Legacy` are servers whose setup is older than the leases: `Init` starts them
with a finished setup, the bot inside and no lease, and the sweep's `Backfill`
gives them one.  `assign_invite_account` counts the seats and writes the lease
without an await in between, and its one caller (`bot.py:7083`) runs on the bot's
event loop, so `Check` is one step; see Observations for its docstring.

Abstractions.  Whether a plan is paid and whether a grace period is over is an
input at every look.  What a claim code's presence is worth is an input of
`Work`, since a description can be edited at any time.  The sweep may take its
pause before any ask after the first, whichever guild it was for.  The switch
`enabled`, the permissions the dashboard displays and capacity reports are left
out, and an account never leaves `INVITE_ACCOUNTS`.

### `LossyLog`, `ActivityLog`, `DiscordPlan`

`LossyLog` is what servers may expect, whatever happens to a channel: a queue
per server that may lose entries, and shows the others once and in order.
`ActivityLog` is the code and implements it (`IsLossyLog`, with the entries
that wait being the unsent ones of the drained batch, then the buffer).

| State | Code |
|---|---|
| `lines`, `dropped` | `VerificationLogBuffer._lines`, `_dropped` |
| `batch` | what the flush task has drained and not yet posted |
| `channel`, `alive` | the stored log channel; the channels Discord has |
| `discord`, `ask` (`DiscordPlan`) | `premium_status_cache`; the lookup under way |

`ReadChannel`, `AskPlan`, `QueueLog` are the stretches of `assign_role` that log
an outcome; `Drain`, `BeginPost`, `SendOk`, `SendGone`, `SendRefused` are
`flush_guild_log` and its loop with every outcome; `Ask`, `Answer`,
`AnswerArrives`, `AskFails` are `guild_has_premium`, with the network between;
`Interaction` is `premium_from_interaction`, `EntitlementChanges` the event that
invalidates.  A note of losses is the item `Note`; a message holds `PerMessage`
items instead of 2000 characters.

### `StatusCache`, `StripeMirror`, `CardPlan`

`StatusCache` is `PremiumStatusCache` for one server: the answer that lasts for
a TTL, and the last one known.  `StripeMirror` is Stripe (`Change`, `Lapse`,
deliveries repeated until a 2xx), the webhook that fetches the current state
(`Deliver`) or answers 200 with nothing to pass on (`Ignore`), and the bot's one
transaction (`Write`, `WriteFails`) over `stripe_event` and
`stripe_subscription`.  A write answers 200 too where it stores nothing: for an
event in the ledger, one that is no newer than the row (`Newer`), and one that
names another server than the row does (`OwnRow`).  `CardPlan` puts the cache in
front of the rows (`ReadCard`, `WriteEvent`, `Expire`, `Restart`), adds the ledger
of servers that have paid through Discord (`EntitlementEvent`, `Sweep`), and the
page's plan block with the checkout (`PageState`, `Checkout`).

Abstractions.  A state of a subscription is its number in Stripe's history, the
second it began in, and a `copy`: whether `_stripe_row_is_paid` takes its status,
whether every field is there that `normalise` wants, and which server its metadata
names.  The first state names the server that bought it (`stripe_api.py:245` sets
it); a person may edit it in Stripe's own dashboard afterwards.  An event without
an id, of another type, or about something whose id is no subscription's is
answered 200 (`app.py:1637-1647`) and is about no subscription of the model.
`old` in `Write` is the pruning of ledger entries that Stripe no longer repeats.
What Discord says of the plan is an input of `Checkout`, since it may be a guess.

### `Panels`

`record`, `viewrow` are the stored location and button version; `live`, `at`,
`buttons` what Discord has; `click`, `slash`, `refresh` the coroutines.
`Enter`, `Check`, `Probe`, `Post`, `Record`, `Undo`, `Replace` are the stretches
of `post_dashboard_panel` under `_panel_post_lock`; `SlashPost`, `SlashRecord`
the command, which takes no lock; `LoadPanel`, `EditOk`, `EditGone`,
`EditRefused` a restyle or a fleet pass on a panel loaded earlier;
`AdminDeletes`, `BotRemoved`, `Restart` the world.  A legacy panel, posted as a
command reply, belongs to a webhook.  `excused` holds the messages the code
itself gives up on, and says so: those left by a move, those whose deletion
failed, the panel a 404 or the bot's removal forgot, those in hand at a restart.

### `VRCSession` and `InviteWorker`

`VRCSession` is the session: `client`, the cookie on disk, and one login at a
time, by the main thread at boot and the relogin thread afterwards (`Attempt`,
`LetIn`, `Reject`, `AskCode`, `FindCode`, `TakeCode`, `LoginFails`,
`CodeRefused`).  `InviteWorker` extends it with the consumer thread: `Deliver`,
`CheckMember`, `Create`, `Probe`, then `Publish`, `Ack`; `Unauthorized` is a 401
at any call, which invalidates; `Unexpected` an exception that is no answer;
`PublishFails`, `HandleFailure` end in a nack; `Crash` and a lost connection
give the job out again.  A cookie is `live` or `dead`, and dies for everyone who
holds it.  Waiting (spacing, back-off) has no state the properties tell apart.
Setup and leave jobs are `GroupSeats`'s.

### `PanelNudge`

`clock` is the `guild_onboarding` row, `older` the order of its rows by
`setup_at`, `todo` what a sweep has loaded, `to` the DM being sent.  `Setup`,
`PanelUp`, `PanelGone`, `Removed`, `Added` are the writers; `Load`, `Drop`,
`Mark`, `Deliver`, `NotDelivered` the sweep with its awaits; each bookkeeping
write may fail silently.  The query and its LIMIT are `Oldest(T)`: T is the
`Limit` oldest of the due rows, or all of them.  A sweep may take what it has
loaded in any order, which allows more than the code does.

### `DashboardSettings`

`value` are nine fields of four tables, each its default or not; `save` the
coroutines of `write_dashboard_settings`; `audit` the log.  `Request` is a batch
the API accepts (from the forms, or any other), `Refuse` everything that is
checked first, `Apply` the stretch from the plan to the next await, `Resume` what
follows the leave of a displaced group.  A failure between any two transactions
ends the save (`Fails`), but for the two the code swallows, which are choices of
`Commit`: `lost`, a branding write that raised inside `save_panel_branding`, and
`blind`, a log channel that `load_log_channel_id` could not read and takes for
none.  `changed` is what the code lists (`Listed`), `moved` what has changed.
`Answer` is the restyle and the reply; `SetUp` and `ForgetLog` are the two other
writers.  A value is the default or another; that a blind read lists a wrong old
value is seen as far as the two can tell.

## Runs

Distinct states are those TLC finds after symmetry reduction, where the
configuration declares it.

| Run | Instance | Shows | Distinct states |
|---|---|---|---|
| `invite_safety` | one member, one account, 2 groups; 2 presses, 2 jobs, cooldown 1 | types; `AnswerIsOurs`, `SettledStands`, `FinalStands`, `ClaimsSpaced` | 1,094,515 |
| `invite_accounts` | one member, 2 accounts, 1 press, 1 job | `OfferedAndCleared` across re-links; `WaitingEnds` | 117,249 |
| `verification_members` | 2 members, 1 account, 2 codes | types, `LinkProven`, `PendingGoes` | 77,012 |
| `verified_role` | 1 member, 2 accounts, 2 codes, 2 results under way | types, `RoleProven`, `VerdictIsAboutLink`, `OldCodesLinkNothing` | 1,076,918 |
| `group_seats` | 2 servers, 1 group, 1 account of 1 seat, 2 jobs, 2 codes | types, `SetupProven`, `ReclaimIsCurrent` | 916,383 |
| `group_seats_accounts` | 3 servers, one of them older than leases, 1 group, 2 accounts of 1 seat, 1 job, 2 codes | `CapHeld` | 400,325 |
| `activity_log` | 1 server, 2 channels, buffer 2, 2 items a message, 4 entries | types, `LossIsTold`, `FallbackIsHeard`, `IsLossyLog` | 493,694 |
| `panels` | 2 clicks, 1 refresh, 2 channels, 2 posts and a legacy panel, 2 releases | `LiveIsTracked`, `SkippedIsRoutable` | 858,508 |
| `billing` | 2 subscriptions, 2 changes, 5 kinds of state, 2 deliveries at once | types, `MirrorCatchesUp`, `CardCacheIsRow`, `NoTrialOncePaid` | 511,443 |
| `worker` | 1 job, 2 tries a call, 1 crash or lost connection | `Resumable`, `CallsBounded`, `AckedIsAnswered`, `BlameIsDeserved`, `ClearsOwnSession`, `Recovers`, `JobsEnd` | 101,043 |
| `panel_nudge` | 2 servers, 1 DM a sweep | types, `ClockSpentOnce`, `DueIsHeard` | 12,348 |
| `settings` | 2 saves, the forms' batches and three that span tables | `AuditTellsAll`, `OnlySubmittedMoves` | 162,458 |

Every run checks for deadlock: time, crashes, admins or members can always act.

### Bounds, and why they are enough

* `GroupInvite`.  Interference on a row needs an old job beside a new one, and
  two presses between awaits: two `Jobs`, two `Presses`.  Ages saturate at
  `AgeCap`, so behaviours are unbounded in length; `Timeout = 0` and
  `Cooldown = 1` give every order of request, timeout, conclusion and second
  claim.  Two `Groups` give a server that is pointed elsewhere between an offer, a
  claim and an answer; two claims make a pair on one group or on two, and a third
  would need a third job, which is left to the theorem.  A row belongs to one member
  and one server, so a second member shares nothing with it but the queue, which is
  a set.  Re-linking needs a second account, and is checked apart with one press and
  one job: the press already carries an account of its own.
* `Verification`.  A replaced code needs two `Codes`; one account pursued by two
  members needs two `Members`; verdicts about different accounts stored out of
  order need two `Accounts` and two results under way (`InFlight = 2`, in
  `verified_role`).  One request at a time in the queue (`Queued = 1`) loses no
  order of results, since a request may be answered again and left.
* `GroupSeats`.  A stale verdict or leave needs a job that is older than another
  of the same server: two `Jobs`; a replaced group needs two `Codes`; inherited
  membership and a released group claimed by another server need two `Guilds`
  and one group.  Assignment across accounts needs one server more than there
  are seats; with one of them older than the leases the two others still compete
  for what it leaves, before and after it is backfilled.
* `ActivityLog`.  The buffers of two servers share nothing but the flush loop,
  which is one at a time.  Four entries fill a buffer of two while a batch of
  two is under way, and a batch with its note (3 items) takes two messages; a
  channel that is replaced while its batch is posted needs two `Channels`.
* `StripeMirror`, `CardPlan`.  Two changes and two deliveries give an overtaken
  and a repeated event of one subscription, and two subscriptions the sum of
  their rows; `Restart` and `Expire` are unbounded.  The `Copies` are one that is
  paid, one that is not, one with a field missing, one that names another server
  and one that names none: each way an event is answered and not stored.
* `Panels`.  The lock matters between two `Clicks`; a stale edit needs one
  `Refreshes` beside them; a move, a replacement and an undone post need two
  messages of the bot's and a legacy one; a rollback needs two `Versions`.
* `InviteWorker`.  `MaxLosses` bounds crashes and lost connections; the
  redelivered flag makes two runs of a job without any, and one loss adds a
  third.  Two `Retries` give a call that fails and one that is tried again.
* `PanelNudge`.  One due row hidden behind one that cannot be acted on needs two
  servers and a limit of one.
* `DashboardSettings`.  Two saves interfere at each await; no batch is bounded
  but by `Batches`, since the forms' own are all there.
* The theorems below lift all of these for the properties they state.

### Fairness

* `GroupInvite`: weak fairness of `Tick` alone.  Clocks advance; no worker, no
  broker and no coroutine of the bot is assumed to make progress, because the
  code relies on none of them (`_effective_state` times a request out when it is
  read).
* `Verification`: weak fairness of `Sweep`, a `while True` loop started at boot,
  and of `Lapse(c)`, the passing of ten minutes.  The checker is not assumed to
  answer.
* `InviteWorker`: weak fairness of `Handle`, `LoginThread` and `Clock`: both
  threads run, whatever their calls answer, and time passes; strong fairness of
  VRChat refusing a dead cookie, asking for the code, mailing it and taking it
  (`Granted`): what is asked again and again is not refused for ever.  Publishes
  and calls may fail for ever; it is the redelivered flag that ends a job.
* `PanelNudge`: weak fairness of `Sweep`, a loop for ever, and strong fairness of
  `Settles(g)`: a database that is written to again and again takes it once.
  Without it the property is false, since every write of this bookkeeping
  swallows its failure.
* The other modules state no liveness.  A lost `assign_role` is repeated only if
  the member presses again; a leave that fails is asked again only if a later
  pass still finds the server lapsed; a log entry, a panel refresh and a webhook
  may be lost or delayed for ever.

## Observations

Met while modelling.  The models hold the behaviour; the properties are stated
so as to be true of it, and say in their comments what they except.

Where the code does less than a line of the repository says:

* `README.md:58-60` promises at most one invite per cooldown, and
  `bot.py:3485-3490` that "the ceiling stays one invite per
  GROUP_INVITE_COOLDOWN_SECONDS".  A member has one row per server (`bot.py:3498`,
  `3617`) and a claim on another group overwrites it, so claims on g1, g2 and g1
  again, in a server that is pointed from one group to the other and back, may all
  fall into one cooldown.  What is spaced, and what `ClaimsSpaced` says, is two
  claims in a row on one group.  Nor is a claim an invite: a job that waited in
  the queue while its request timed out is sent next to the one that followed it.
* `bot.py:5955-5958` speaks of a member "somebody who was verified" whom "a
  re-check has taken their role away" from.  A re-check that is not 18+ takes
  `verification_status` away (`bot.py:7578-7592`) and `assign_role` then only
  tells the member (`bot.py:6306-6317`): the role stays.  Nor does an
  `assign_role` look at the row again, so one that was started 18+ gives the role
  though a later verdict is stored by then.  `RoleProven` therefore says what a
  role always means, a proven account VRChat has called 18+, and not that its
  holder is 18+ now.
* `bot.py:6345` refuses a VRChat id already linked to another member when it is
  typed in; `bot.py:7585` writes the link minutes later without looking again,
  and no constraint on `users.vrc_user_id` stops a second one.  Both members
  must have shown their code in the bio (`LinkProven`), so this takes one person
  with two Discord accounts.
* `vrc_online_checker.py:400` means to requeue a request whose result could not
  be published; `send_verification_result` returns normally after giving up
  (line 548), so line 397 acks it.  The invite worker's counterpart raises, and
  `AckedIsAnswered` is about that.
* `bot.py:3901`: "Reserve a seat for this guild and return the account, or None if
  full".  With one account it is never full: `invite_account_for_guild`
  (`bot.py:3864`) answers the only account to a server without a lease, and
  `bot.py:3925-3930` records it before looking at usage.  And
  `backfill_seat_lease` (`bot.py:4236-4267`) gives a server set up before leases
  were kept its lease on the account that joined for it, full or not.  `CapHeld`
  counts, where there are several accounts, the leases of the other servers.
* `bot.py:3911-3914`: "Two guilds assigning in the same instant can both pick the
  same account and put it one over its cap."  They cannot in one process:
  `assign_invite_account` has no await between `seat_usage` and
  `_record_seat_lease`, and only `bot.py:7083` calls it, on the event loop.  It
  would take two bot processes on one database.
* `bot.py:4274-4276` takes a reservation without a successful check for a group
  the bot never joined; `verify_group_setup` joins before it answers
  `no_invite_permission`, so the reservation expires (`bot.py:4302`) with the
  bot in the group.
* `bot.py:9608`: "A batch with one bad field changes nothing at all".  A batch
  refused at `bot.py:9843` because the server is not set up has already saved
  its other tables.  Neither that nor a transaction that fails half way is
  audited: `AuditTellsAll` says all or nothing of a save.
* `bot.py:9579-9583`: "Only real changes are recorded."  `save_panel_branding`
  swallows its exception (`bot.py:4601-4602`) after the field has been put in
  `changed` (`9749-9752`): a branding that was not written is audited
  (`9856-9858`) and answered as saved.  `load_log_channel_id` answers None when it
  cannot read (`2990-3007`): a channel set to what it already was is then listed as
  a change, one that is replaced is listed with no old value, and one that is
  cleared stays, unlisted, in a save that is answered.  `AuditTellsAll` lets a
  save list what did not change for the fields in `swallowed` alone.
* `bot.py:10014-10015`: "Losing an event quietly is the one outcome this must
  never produce."  Answered 200, never repeated, and with nothing on file: an event
  that names no server (`app.py:1649-1659`) or whose current state lacks a field
  (`app.py:1695-1705`, which `tests/test_stripe_webhook.py:561-567` asserts; a
  malformed id, `633-644`, is the same), and one that names another server than the
  row (`bot.py:10098-10111`); and the later of two changes in one second
  (`bot.py:9999-10008` documents it).  `MirrorCatchesUp` says what is kept all the
  same: once the last event is answered, if its state can be recorded and none ever
  named another server, the row's state began in the same second as Stripe's.
* `bot.py:8211-8214` ("one nudge per gap") and `tests/test_panel_nudge.py:8`.  A
  setup command that is run again after the DM, with still no panel, finds the flag
  set and starts the clock again (`bot.py:8227-8231`), as it does for a panel that
  was posted and lost: the same gap is nudged twice.  What is kept is one DM for
  each clock started (`ClockSpentOnce`).
* `bot.py:2722-2727`: "the worst outcome is a trial not offered rather than one
  given twice", and `bot.py:10362`: "trial_eligible fails closed while it is still
  running".  Until a sweep has reached a server it reads as one that never paid,
  and a trial may be sold; so does one whose sweep failed.  Two checkouts open at
  once may both carry it.  `NoTrialOncePaid` counts from the ledger's entry, or
  from the first event that was answered.
* `bot.py:8191`: "Losing this only costs a redundant edit on the next boot."  A
  version write that is lost, a rollback that redraws the panel, and the release
  again leave a panel whose record says it is current and whose buttons are not
  (`slip`): it is skipped.

And where no line says otherwise:

* Group invites and seats.  A ban recorded for a group is forgotten when the
  server is pointed at another group and back.  A leave for a displaced group
  that fails is not retried.  A leave is published by one executor thread and a
  later check by another, so the queue may hold them the other way round: the
  setup then reads ready with the bot outside, until its next check.  A sweep
  that pauses before an ask acts on a server's state from before the pause:
  `ReclaimIsCurrent` counts from the ask.
* Verification.  A re-check published before a new code was completed, and
  answered after, puts the old account back on the row.
* Activity log.  A database read that fails in the flush, and a 404, lose a
  batch uncounted, and with it the count of what was lost before (`LossIsTold`
  leaves out what a channel that is gone takes with it, and from then on the
  counts kept may exceed what they owe).  A 404 about an old channel erases the one
  chosen meanwhile (`bot.py:4438`, `4749`).  A batch refused half way is counted whole.  An
  answer of Discord's that is older than an invalidation is stored after it.
* Billing.  A row may go back for a moment, when the delivery of a newer event has
  fetched earlier and is written later, until the event it lacks comes.
* Panels.  A 404 of a refresh forgets the panel recorded since it loaded
  (`bot.py:8408`, `8259`), in one transaction for the record and one for the version,
  which `Forget` takes as one.  A send that raised after Discord had taken it
  (`bot.py:9237-9239`) counts as not sent: such a panel is out of the model.  The
  slash command takes no lock, and when its write fails its panel is tracked by
  nobody.
* Session and worker.  An exception of the second-factor call escapes `login`
  (`vrc_session.py:593`): no interval starts and the thread tries again at once.
  A permission given back between the 403 and the probe reads as the member's
  block.  The stored session is replaced by a rename (`vrc_session.py:475`), so a
  crash leaves the old file or the new one, and no half of one is in the model.  A
  redelivery caused by a lost connection is not counted by the cap
  (`CallsBounded` adds them).
* Nudge.  A panel posted while the sweep spaces its DMs does not stop the ones
  loaded; a database that answers reads and not writes repeats the DM with every
  sweep (`unmarked`).  The cutover campaign (`bot.py:7777-7959`) is built alike.
* Saves.  A save that is committed and cannot be read back is answered 503.  Two
  saves may be audited in the other order than they were stored, and their
  restyles may land in either.

## Proofs

All forty-three theorems hold for any sets of members, servers, groups, accounts,
codes, jobs, subscriptions, channels, messages and saves, from the assumptions the modules
name, which say three things: counters and bounds are what they are named
(`TimingAssumption`, `InFlightAssumption`, `SeatsAssumption`: at least one seat,
finitely many servers; `LegacyGuilds`: those set up before leases are among them;
`NudgeAssumption`: a limit of at least one, finitely many servers; `LogConstants`: room for at least one line in a buffer and in a message;
`WorkerAssumption`, `MirrorConstants`, `PanelConstants`),
batches are nonempty sets of fields (`SettingsAssumption`), and `None` is none of
the values it stands in for (`NoneAssumption`, `CodesAreNotNone`, `NoneIsNothing`,
`NoneIsNoRecord`, `NoneIsNoAnswer`).  Every run evaluates the assumptions of the
module it instantiates.

**`GroupInviteProofs`**
* `TypeCorrect`, from `TypeInv == TypeOK /\ Placed`.  Types alone are not
  inductive: a later stretch of a coroutine puts its locals in a DM or in the
  queue, so `Placed` says they have been read by then.
* `SettledRowsStand`, `FinalRowsStand`, over `TypeInv` and the lemma
  `RowSteps`, which sorts every step by what it does to a row (nothing, age,
  retire, claim, conclude).
* `ClaimsAreSpaced`, of two claims in a row on one group, from `Spaced`: the history's age is the age `Refusal`
  reads, and where a row is gone a cooldown has passed.  The second half is
  needed because an offer retires rows; without it a retired row would forget
  when its claim was.
* `AnswersAreOurs`, the invariant being inductive over `TypeInv`.
* `InvitesAreOfferedAndCleared`, from `Offered`: every place an account rides in
  (button, press, row) holds only offered ones, and `adult` is kept with
  `linked` by the same write.
* `JobsAreTheirRows`, `WorkIsWhatWasOffered`: the job on a row was claimed for
  its member, group and account, so an answer, which names only a job, lands on
  no other row; and the worker's queue invites only accounts that were offered.
  `Claimed` says that what the broker has, and what a press is about to publish,
  was claimed; a job is never rewritten (`JobsStand`).

**`VerificationProofs`**: `TypeCorrect`, `LinksAreProven`,
`VerdictsAreAboutLinks`, `OldCodesAreDead`, from one invariant: what travels
through the queues was true when asked (`Sound`, `True`) and, because codes,
bios and verdicts only accumulate (`Grows`), stays true; a pending row's code is
its own and unspent (`Standing`).

For `VerifiedRole`, in the same module: `RoleTypeCorrect`, `RolesAreProven`,
and `RoleImplementsVerification`, that the composition implements `Verification`:
a step of the one is a step of the other or a stutter (`RoleStepIsStep`), so what
is proved of links and codes holds beside the roles; `RoleInv` adds that
a coroutine that will grant the role was started by a verdict of 18+ about an
account its member has shown, or by a row that had one.

**`GroupSeatsProofs`**: `SeatsTypeCorrect`, `SetupIsProven`,
`ReclaimsAreCurrent`, from `SeatInv`.  `Stamped`: the job a setup waits for was
drawn for the group and code it has now, and goes without the code only where
that has been proved.  `ReadyShown`: a "ready" that asked for the code had it.
`Drawn`: everything under way has a record.  `Listed`: the sweep's list names a
lease where it says there is one, so no write makes one up.  `Current`: the
reclaim a lease waits on is this server's and no check has followed it.
`CapIsHeld` from `CapInv`, for several accounts (with one, the property says
nothing): the servers that count are those outside `Legacy`, and `Rooted` says
that such a server, where an account has joined for it or is to check it, has a
lease.  It is needed because the sweep writes leases for servers that have none:
`Rooted` keeps that write to the legacy ones.  The cardinalities are
`FiniteSetTheorems`'s: an account given out has a seat free, and one server more
fills it at most.

**`ActivityLogProofs`**
* `LogTypeCorrect`, `LossesAreTold`, `FallbacksAreHeard`, from `LossInv`.
  `Heard`: an answer of Discord's that is still on its way is a plan the server
  has had.  `Counted(g)`: of the entries lost, each is in the count the buffer
  keeps, in the count the batch carries, or told by a note; the batch's count is
  owed only until its note is sent, and what is left of a batch never exceeds
  its size, so a refusal counts at least what it costs.
* `LogImplementsQueue`: `Spec => IsLossyLog`.  `StepIsLogStep` shows that each
  step is, for one server, a loss, a logging or a showing of the queue made of
  the batch's rest and then the buffer, or leaves every queue as it is.  `Drain`
  is the step that needs the order of the two: it moves all buffers into batches
  that were idle.  The sequences are cut by `SubSeq`, so nothing here is recursive.
* `EntriesInOrder`: a channel shows an entry at most once and in the order of the
  outcomes, and what waits comes behind it.  It is proved of `LossyLog`'s own
  steps (`Rises`) and carried over by the refinement.

**`CardPlanProofs`**: `PlanTypeCorrect`; `MirrorIsCurrent` from `Mirrored`:
states are numbered in the order of their seconds (`Ordered`); an event that is in
the ledger or answered has left a row at least as new, or the row is another
server's, or a state from that event on was not one to record (`Reflected`, which
is what survives the pruning of the ledger); a row's stamp is that of an event, its
state is no older, and it is another server's only where a state has named that
(`Witnessed`); and what is on its way to the bot names a server (`Routed`).
`CacheFollowsRows`: the write and the invalidation are one step.
`TrialsAreForTheNew`: by `Reflected` an answered event of a subscription that could
be recorded throughout has left a row, and rows are never deleted.

**`PanelsProofs`**: `PanelsTypeCorrect`; `PanelsAreTracked` from `TrackInv`: where
a click stands says what it holds (`Poised`), at most one click is under way
(`OneClick`, which is the lock), and every live message is recorded, in a hand or
excused (`Hands`, `Care`, `Sent`).  `SkippedPanelsRoute` from `SkipInv`: the
recorded version is that of the buttons unless a version write was lost (`Own`,
`Known`, `Matched`, `Seen`).

For `PanelNudge`, in the same module: `NudgeTypeCorrect`, `ClocksAreSpentOnce` from
`NudgeInv`.  `Paid(g)`: unless a mark was lost, every running clock, every server
on the sweep's list and the DM on its way has a started clock behind it that no
DM has spent.  The rows stay totally ordered, which the query relies on
(`OldestIsOne`: it has one answer at most, so which servers a sweep takes is no
choice of the model's).

**`InviteWorkerProofs`**: `WorkerTypeCorrect`, `SessionsResume`,
`AckedJobsAreAnswered`, `BlamesAreDeserved`, `OwnSessionsAreCleared`,
`CallsAreBounded`.  `LoginAlone`: a login is under way only where there is no
client, so the thread never replaces one in use.  `HeldIsClient`: the client a
call is made with is still the session's, so a 401 invalidates nobody else's.
`OnTheWay`: a step past a 403 or a 404 has read the world as it is, unless it
changed.  The bound on calls counts runs by the redelivered flag and `losses`.

**`DashboardSettingsProofs`**: `SettingsTypeCorrect`, `OnlySubmittedFieldsMove`;
`AuditIsWhole` from `ListedIsMoved` (at every await a save lists all it has moved,
and beside it only fields of which it swallowed a failure) and `Progress` (nothing
is audited before the last table).

Each property that a run lists was checked by TLC before it was proved.  `TypeOK`
of `Panels`, `InviteWorker` and `DashboardSettings`, `EntriesInOrder`, `OldestIsOne`,
`RoleImplementsVerification`, `JobsAreTheirRows` and `WorkIsWhatWasOffered` are
theorems that no run lists.

Model-checked only: the liveness properties (`WaitingEnds`, `PendingGoes`,
`Recovers`, `JobsEnd`, `DueIsHeard`), which need `ENABLED`.  Every safety
invariant, action property and refinement that a run checks is also a theorem.
That the sweep's query always has an answer where a row is due, which
`DueIsHeard` shows on the instance, would need induction over finite sets.

## Not modelled

* The cutover campaign and the milestone DM mark and send as the nudge does, and
  would repeat its module; the grandfather line is one comparison of dates.
* The bot API gate (spent tokens, clock skew) and the dashboard's sessions and
  OAuth handshake: authorisation of single requests, each decided in one step
  without an await.  Their handlers that write are in `DashboardSettings` and
  `StripeMirror`, after the gate.
* The order in which one DM is edited by press, answer and expiry: edits are
  awaited separately and may land in any order, and a button pressed again is
  refused by the row, which is what `GroupInvite` models.
* In the modelled parts: cooldown buckets, nicknames, DM wording, the unverified
  role, the permission display of the setup page, capacity reports, and accounts
  leaving the roster.
* Page views, translation tables, configuration parsing, log formatting, the
  deployment scripts and the manual test script have no state whose order
  matters.
