---------------------------- MODULE Verification ----------------------------
(***************************************************************************)
(* How a Discord member comes to be linked to a VRChat account: Begin       *)
(* Verification, the VRChat id modal and its pending row, the Verify        *)
(* button, the checker's queue, the checker, its results queue, and the bot *)
(* storing a result.  What follows a stored result, assign_role, is the     *)
(* business of VerifiedRole, which extends this module.                     *)
(*                                                                          *)
(* The request queue is a priority queue and every result is handled by a   *)
(* coroutine of its own that first awaits Discord, so both queues are sets: *)
(* what is in them is taken in any order.  A message may be run again (the  *)
(* broker redelivers what was not acked), and a result is acked before its  *)
(* coroutine runs, so it may also vanish.  A pending row's ten minutes end  *)
(* at any time after it was written.                                        *)
(*                                                                          *)
(* Codes is the supply of verification codes and bounds the modals          *)
(* submitted; Queued bounds the requests and InFlight the results under way.*)
(***************************************************************************)
EXTENDS Naturals, FiniteSets

CONSTANTS Members, Guilds, Accounts, Codes, Queued, InFlight, None

ASSUME InFlightAssumption == Queued \in Nat \ {0} /\ InFlight \in Nat \ {0}
ASSUME CodesAreNotNone == None \notin Codes \cup Accounts

VARIABLES
    user,       \* users: vrc_user_id and verification_status, or no row
    pending,    \* pending_verifications: the code of the row, per member, guild
    issued,     \* what each code was drawn for
    expired,    \* codes whose expires_at has passed
    modals,     \* VRChat id modals open on somebody's screen
    requests,   \* the checker's queue
    results,    \* the bot's results queue
    bio,        \* <<account, code>>: the code has stood in the account's bio
    seen18,     \* history: accounts VRChat has called 18+
    spent       \* history: codes that have linked an account

rows  == <<user, pending, issued, expired>>
world == <<bio, seen18>>
vars  == <<rows, modals, requests, results, world, spent>>

User == [account : Accounts, adult : BOOLEAN]
Issue == [member : Members, guild : Guilds, account : Accounts]
Request == [member : Members, guild : Guilds, account : Accounts,
            code : Codes \cup {None}]
Verdicts == {"18+", "under", "failed"}
Result == [request : Request, verdict : Verdicts, found : BOOLEAN]

ASSUME NoneIsNoRecord == None \notin User /\ None \notin Issue

TypeOK ==
    /\ user \in [Members -> User \cup {None}]
    /\ pending \in [Members \X Guilds -> Codes \cup {None}]
    /\ issued \in [Codes -> Issue \cup {None}]
    /\ expired \subseteq Codes
    /\ modals \subseteq Members \X Guilds
    /\ requests \subseteq Request
    /\ results \subseteq Result
    /\ bio \subseteq Accounts \X Codes
    /\ seen18 \subseteq Accounts
    /\ spent \subseteq Codes
----------------------------------------------------------------------------
Linked(m, a) == user[m] # None /\ user[m].account = a
Adult(m) == user[m] # None /\ user[m].adult

\* publish_to_vrc_checker, on the executor: a request that cannot be
\* published after its retries is dropped, and the member is told it started.
Publishes(q) ==
    requests' \in {requests} \cup
      (IF Cardinality(requests) < Queued THEN {requests \cup {q}} ELSE {})

Init ==
    /\ user = [m \in Members |-> None]
    /\ pending = [mg \in Members \X Guilds |-> None]
    /\ issued = [c \in Codes |-> None]
    /\ expired = {} /\ modals = {} /\ requests = {} /\ results = {}
    /\ bio = {} /\ seen18 = {} /\ spent = {}

(***************************************************************************)
(* The member.                                                             *)
(***************************************************************************)

\* process_verification.  A press the cooldown refuses changes nothing here,
\* and one by a member already 18+ only goes on to assign_role.
BeginRecheck(m, g) ==
    /\ user[m] # None /\ ~Adult(m)
    /\ Publishes([member |-> m, guild |-> g, account |-> user[m].account, code |-> None])
    /\ UNCHANGED <<rows, modals, results, world, spent>>

BeginNew(m, g) ==
    /\ user[m] = None
    /\ modals' = modals \cup {<<m, g>>}
    /\ UNCHANGED <<rows, requests, results, world, spent>>

\* Nobody has this account, or the row the query happens to take is their own.
Free(m, a) == (\A n \in Members : ~Linked(n, a)) \/ Linked(m, a)

\* VRCUsernameModal.on_submit: refused, or the member's old row for this
\* server is replaced by one with a fresh code.
Submit(m, g, a) ==
    /\ <<m, g>> \in modals
    /\ modals' = modals \ {<<m, g>>}
    /\ \/ /\ Free(m, a)
          /\ \E c \in Codes :
               /\ issued[c] = None
               /\ issued' = [issued EXCEPT ![c] =
                    [member |-> m, guild |-> g, account |-> a]]
               /\ pending' = [pending EXCEPT ![<<m, g>>] = c]
       \/ /\ \E n \in Members \ {m} : Linked(n, a)
          /\ UNCHANGED <<issued, pending>>
    /\ UNCHANGED <<user, expired, requests, results, world, spent>>

\* The Verify button asks about the row as it stands, not the code it shows.
PressVerify(m, g) ==
    LET c == pending[<<m, g>>] IN
    /\ c # None /\ c \notin expired
    /\ Publishes([member |-> m, guild |-> g, account |-> issued[c].account, code |-> c])
    /\ UNCHANGED <<rows, modals, results, world, spent>>

\* Somebody puts a code in the bio of an account they hold.
ShowCode(a, c) ==
    /\ issued[c] # None
    /\ bio' = bio \cup {<<a, c>>}
    /\ UNCHANGED <<rows, modals, requests, results, seen18, spent>>

Lapse(c) ==
    /\ issued[c] # None
    /\ expired' = expired \cup {c}
    /\ UNCHANGED <<user, pending, issued, modals, requests, results, world, spent>>

\* Defect: nothing is ever stale enough.
Defect_NeverStale(c) == FALSE

Stale(c) == c \in expired

\* One round of expired_pending_cleanup_task.
Sweep ==
    /\ pending' = [mg \in Members \X Guilds |->
                     IF Stale(pending[mg]) THEN None ELSE pending[mg]]
    /\ UNCHANGED <<user, issued, expired, modals, requests, results, world, spent>>

(***************************************************************************)
(* The checker.  It publishes before it acks; a publish that fails after    *)
(* its retries is only logged, so the request is acked all the same.  A bio *)
(* is read through a cache, so a code that stands there may not be found.   *)
(***************************************************************************)
\* Defect: a missing code is found.
Defect_BioAlwaysMatches(a, c) == c # None

bio_contains_code(a, c) == <<a, c>> \in bio

\* What verify_and_build_result may answer.
Answers(q) ==
    {r \in [request : {q}, verdict : Verdicts, found : BOOLEAN] :
       r.found => r.verdict # "failed" /\ bio_contains_code(q.account, q.code)}

\* A requeue, or a connection lost before the ack, leaves the request there.
Leaves(q) == requests' \in {requests, requests \ {q}}

CheckerAnswers(q) ==
    /\ q \in requests /\ Cardinality(results) < InFlight
    /\ \E r \in Answers(q) :
         /\ results' = results \cup {r}
         /\ seen18' = IF r.verdict = "18+" THEN seen18 \cup {q.account} ELSE seen18
    /\ Leaves(q)
    /\ UNCHANGED <<rows, modals, bio, spent>>

CheckerGivesUp(q) ==
    /\ q \in requests /\ Leaves(q)
    /\ UNCHANGED <<rows, modals, results, world, spent>>

(***************************************************************************)
(* handle_verification_result, up to what it stores.                       *)
(***************************************************************************)
Taken(r) == results' \in {results, results \ {r}}

\* Defect: the verdict is stored, the account it is about is not.
Defect_StoresVerdictOnly(r) ==
    user' = [user EXCEPT ![r.request.member] =
      [account |-> IF @ = None THEN r.request.account ELSE @.account,
       adult |-> r.verdict = "18+"]]

\* Defect: a verdict left out of the payload is stored as NULL.
Defect_StoresNull(r) ==
    user' = [user EXCEPT ![r.request.member] =
      [account |-> r.request.account, adult |-> IF r.verdict = "18+" THEN TRUE ELSE None]]

Stores(r) ==
    user' = [user EXCEPT ![r.request.member] =
      [account |-> r.request.account, adult |-> r.verdict = "18+"]]

\* No code: a member with a row is re-checked.
StoreRecheck(r) ==
    LET m == r.request.member IN
    /\ r \in results /\ r.verdict # "failed" /\ r.request.code = None
    /\ user[m] # None
    /\ Stores(r) /\ Taken(r)
    /\ UNCHANGED <<pending, issued, expired, modals, requests, world, spent>>

\* The row a coded result is about: this member's, here, with this very code.
Awaited(r) ==
    r.request.code # None /\ pending[<<r.request.member, r.request.guild>>] = r.request.code

\* Defect: a completed row is kept for the next press.
Defect_KeepsRow(c) == c

\* What is left of the row once its result has been stored.
AfterSuccess(c) == None

StoreCode(r) ==
    LET q == r.request IN
    /\ r \in results /\ r.verdict # "failed" /\ Awaited(r)
    /\ q.code \notin expired /\ r.found
    /\ Stores(r) /\ Taken(r)
    /\ pending' = [pending EXCEPT ![<<q.member, q.guild>>] = AfterSuccess(@)]
    /\ spent' = spent \cup {q.code}
    /\ UNCHANGED <<issued, expired, modals, requests, world>>

\* The answer came too late: the row goes.
DropExpired(r) ==
    /\ r \in results /\ r.verdict # "failed" /\ Awaited(r)
    /\ r.request.code \in expired
    /\ pending' = [pending EXCEPT ![<<r.request.member, r.request.guild>>] = None]
    /\ Taken(r)
    /\ UNCHANGED <<user, issued, expired, modals, requests, world, spent>>

\* The member is only told something (a failed lookup, a missing code), or
\* nothing is left that the result is about, or its coroutine never ran.
DropResult(r) ==
    /\ r \in results
    /\ results' = results \ {r}
    /\ UNCHANGED <<rows, modals, requests, world, spent>>

----------------------------------------------------------------------------
MemberStep(m, g) ==
    \/ BeginRecheck(m, g) \/ BeginNew(m, g)
    \/ \E a \in Accounts : Submit(m, g, a)
    \/ PressVerify(m, g)

ResultStep(r) == StoreRecheck(r) \/ StoreCode(r) \/ DropExpired(r) \/ DropResult(r)

Next ==
    \/ \E m \in Members, g \in Guilds : MemberStep(m, g)
    \/ \E a \in Accounts, c \in Codes : ShowCode(a, c)
    \/ \E c \in Codes : Lapse(c)
    \/ Sweep
    \/ \E q \in requests : CheckerAnswers(q) \/ CheckerGivesUp(q)
    \/ \E r \in results : ResultStep(r)

Spec == Init /\ [][Next]_vars

\* Time runs out on every code, and the cleanup task is a loop for ever.
FairSpec == Spec /\ WF_vars(Sweep) /\ \A c \in Codes : WF_vars(Lapse(c))
----------------------------------------------------------------------------
(* Correctness. *)

\* A link is proven: however late, repeated or reordered the results are, the
\* account on a member's row once showed a code drawn for that member and that
\* account (the pending row's code is matched in handle_verification_result).
LinkProven ==
    \A m \in Members : user[m] # None =>
      \E c \in Codes :
        /\ issued[c] # None
        /\ issued[c].member = m /\ issued[c].account = user[m].account
        /\ <<user[m].account, c>> \in bio

\* verification_status is a verdict on the account linked beside it: a result
\* about another account never leaves its verdict with this one's id.
VerdictIsAboutLink ==
    \A m \in Members : Adult(m) => user[m].account \in seen18

\* A member's row changes only through a re-check, or through a code that has
\* not expired, has linked nothing yet and has not been replaced since.
OldCodesLinkNothing ==
    [][\A m \in Members : user'[m] # user[m] =>
         \E r \in results :
           /\ r.request.member = m
           /\ \/ r.request.code = None
              \/ /\ r.request.code \notin expired \cup spent
                 /\ pending[<<m, r.request.guild>>] = r.request.code]_user

\* A row nobody completes is gone in the end, though no result ever comes.
PendingGoes ==
    \A m \in Members, g \in Guilds, c \in Codes :
      pending[<<m, g>>] = c ~> pending[<<m, g>>] # c
============================================================================
