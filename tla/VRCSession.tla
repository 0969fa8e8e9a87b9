---------------------------- MODULE VRCSession ----------------------------
(***************************************************************************)
(* One VRChat account's session (vrc_session.py): the client the consumer   *)
(* thread works with, the cookie kept on disk, and the login that the main  *)
(* thread makes at boot and the relogin thread afterwards.  VRChat may end  *)
(* a session at any time; a cookie is only told apart by whether VRChat     *)
(* still takes it.  The session file is assumed to be readable and          *)
(* writable (check_session_store_writable says so at boot).                 *)
(***************************************************************************)
CONSTANT None

VARIABLES
    client,  \* _client: the cookie it carries, or None
    stored,  \* the cookie in the session file, or None
    due,     \* whether _next_login_attempt_at has passed
    login,   \* where the login under way is; "off" when none can be
    booted   \* whether the boot login is over and the thread started

session == <<client, stored, due, login, booted>>

Cookies == {"live", "dead"}
LoginSteps == {"off", "idle", "reuse", "fresh", "mail", "verify"}

SessionTypeOK ==
    /\ client \in Cookies \cup {None}
    /\ stored \in Cookies \cup {None}
    /\ due \in BOOLEAN /\ booted \in BOOLEAN
    /\ login \in LoginSteps

SessionInit ==
    /\ client = None /\ stored = None
    /\ due = TRUE /\ login = "off" /\ booted = FALSE

Ended(cookie) == IF cookie = None THEN None ELSE "dead"

\* Defect: the thread logs in although there is a session.
Defect_LogsInAgain == due

\* relogin_loop: no client, and its interval has passed.
Wants == client = None /\ due

\* attempt_login: forced at boot, scheduled afterwards; the file decides how
\* it starts.
Attempt ==
    /\ \/ login = "off" /\ ~booted
       \/ login = "idle" /\ Wants
    /\ login' = IF stored = None THEN "fresh" ELSE "reuse"
    /\ UNCHANGED <<client, stored, due, booted>>

\* Defect: the jar is attached only when a stored session is loaded.
Defect_KeepsOld == stored

\* persist_session: the jar is attached whether or not it was loaded.
Persisted == "live"

\* A login ends with a client: the interval is cleared.
LoggedIn ==
    /\ client' = "live" /\ stored' = Persisted /\ due' = TRUE
    /\ login' = "idle" /\ booted' = TRUE

\* A login ends without one: the next is an interval away.
LoginFails ==
    /\ login \in {"reuse", "fresh", "mail"}
    /\ client' = None /\ due' = FALSE
    /\ login' = "idle" /\ booted' = TRUE
    /\ UNCHANGED stored

\* get_current_user with the stored cookie, or with the password where the
\* account asks for no second factor.
LetIn ==
    /\ \/ login = "reuse" /\ stored = "live"
       \/ login = "fresh"
    /\ LoggedIn

\* A refused cookie is thrown away, and the password tried at once.
Reject ==
    /\ login = "reuse" /\ stored = "dead"
    /\ stored' = None /\ login' = "fresh"
    /\ UNCHANGED <<client, due, booted>>

\* The second factor is wanted, of a stored session or of a fresh one.
AskCode ==
    /\ login = "fresh" \/ (login = "reuse" /\ stored = "live")
    /\ login' = "mail"
    /\ UNCHANGED <<client, stored, due, booted>>

\* fetch_latest_2fa_code finds a mail; LoginFails is when it finds none.
FindCode ==
    /\ login = "mail"
    /\ login' = "verify"
    /\ UNCHANGED <<client, stored, due, booted>>

TakeCode == login = "verify" /\ LoggedIn

\* Defect: what is raised ends the relogin thread.
Defect_ThreadDies ==
    /\ login = "verify"
    /\ login' = "off"
    /\ UNCHANGED <<client, stored, due, booted>>

\* What VRChat raises to the code leaves login(), whose handlers are beside
\* the one it is raised in: no state is set and no interval starts.  The
\* thread goes on; at boot the process ends and is started again.
CodeRefused ==
    /\ login = "verify"
    /\ login' = IF booted THEN "idle" ELSE "off"
    /\ UNCHANGED <<client, stored, due, booted>>

\* VRChat ends the account's sessions.
Revoke ==
    /\ "live" \in {client, stored}
    /\ client' = Ended(client) /\ stored' = Ended(stored)
    /\ UNCHANGED <<due, login, booted>>

\* The interval passes.
Due == ~due /\ due' = TRUE /\ UNCHANGED <<client, stored, login, booted>>

\* invalidate: by the consumer thread, when VRChat has refused its client.
Invalidate ==
    /\ client' = None /\ due' = FALSE
    /\ UNCHANGED <<stored, login, booted>>

Restart ==
    /\ client' = None /\ due' = TRUE /\ login' = "off" /\ booted' = FALSE
    /\ UNCHANGED stored

LoginStep ==
    \/ Attempt \/ LetIn \/ Reject \/ AskCode \/ FindCode \/ TakeCode
    \/ LoginFails \/ CodeRefused

\* A session in use is the one the file keeps: whichever way a login came
\* about, a restart resumes it and costs no second-factor mail.
Resumable == client # None => stored = client

\* Only VRChat ends a session: nothing that happens to a client taken
\* earlier clears one that VRChat still takes.
ClearsOwnSession == [][client = "live" /\ booted' => client' # None]_session

\* A lost session comes back, whatever is raised on the way, as long as
\* VRChat does not refuse for ever.
Recovers == client = None ~> client # None
=============================================================================
