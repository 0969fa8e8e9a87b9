------------------------- MODULE InviteWorkerProofs -------------------------
(***************************************************************************)
(* The invite worker and its session, for any number of jobs, retries and   *)
(* losses: who may clear a client, what a refusal is read as, what an ack   *)
(* stands for and how many calls a press can cost.                          *)
(***************************************************************************)
EXTENDS InviteWorker, TLAPS

Calls == {"member", "create", "probe403", "probe404"}

\* A login is only under way while there is no client.
LoginAlone ==
    /\ login # "idle" => client = None
    /\ ~booted => client = None

\* The client a call is made with is still the worker's client: nothing but
\* the handler itself clears it, and nothing replaces one that is there.
HeldIsClient == at \in Calls => held = client /\ held # None

\* What the handler knows on the way to its answer.
OnTheWay ==
    /\ at = "idle" => answer = None
    /\ at = "settle" => published[job] # {}
    /\ at = "probe403" /\ ~changed => world \in {"refuses", "shut"}
    /\ at = "probe404" /\ ~changed => world \in {"no_user", "no_group"}

SessionInv == LoginAlone /\ HeldIsClient /\ Resumable

Inv == TypeOK /\ SessionInv /\ OnTheWay /\ AckedIsAnswered /\ BlameIsDeserved

LEMMA CapIsNat == CallCap \in Nat /\ Retries \in Nat \ {0} /\ MaxLosses \in Nat
  BY WorkerAssumption DEF CallCap

-----------------------------------------------------------------------------
\* The types, in the parts that change together.
HandOK ==
    /\ at \in Steps /\ job \in Jobs \cup {None}
    /\ held \in Cookies \cup {None} /\ tries \in 0 .. Retries
    /\ answer \in Answers \cup {None}
    /\ job = None <=> at = "idle"
    /\ at = "publish" => answer # None

QueueOK ==
    /\ kind \in [Jobs -> Kinds]
    /\ place \in [Jobs -> {"queued", "held", "acked", "dropped"}]
    /\ redelivered \subseteq Jobs
    /\ \A j \in Jobs : place[j] = "held" <=> job = j

RestOK ==
    /\ world \in Worlds /\ changed \in BOOLEAN
    /\ sent \in [Jobs -> 0 .. CallCap] /\ published \in [Jobs -> SUBSET Answers]
    /\ losses \in 0 .. MaxLosses

LEMMA TypeParts == TypeOK <=> SessionTypeOK /\ HandOK /\ QueueOK /\ RestOK
  BY DEF TypeOK, HandOK, QueueOK, RestOK

LEMMA TypePartsPrimed == TypeOK' <=> SessionTypeOK' /\ HandOK' /\ QueueOK' /\ RestOK'
  BY DEF TypeOK, HandOK, QueueOK, RestOK

LEMMA InvInit == Init => Inv
  <1> SUFFICES ASSUME Init PROVE Inv
    OBVIOUS
  <1>1. None \notin Jobs /\ None \notin Answers /\ None \notin Cookies
    BY NoneIsNothing
  <1>2. TypeOK
    <2>1. SessionTypeOK
      BY DEF Init, SessionInit, SessionTypeOK, LoginSteps
    <2>2. HandOK
      BY <1>1, CapIsNat DEF Init, HandOK, Steps
    <2>3. QueueOK
      BY <1>1 DEF Init, QueueOK
    <2>4. RestOK
      <3>1. 0 \in 0 .. CallCap /\ 0 \in 0 .. MaxLosses
        BY CapIsNat
      <3> QED BY <3>1 DEF Init, RestOK
    <2> QED BY <2>1, <2>2, <2>3, <2>4, TypeParts
  <1>3. SessionInv
    BY DEF Init, SessionInit, SessionInv, LoginAlone, HeldIsClient, Resumable, Calls
  <1>4. None \notin Blames
    BY <1>1 DEF Answers
  <1> QED BY <1>2, <1>3, <1>4 DEF Init, Inv, OnTheWay, AckedIsAnswered, BlameIsDeserved

LEMMA SettleTypes ==
    ASSUME TypeOK, job \in Jobs, NEW to \in {"queued", "acked", "dropped"},
           NEW again \in SUBSET Jobs, Settle(to, again)
    PROVE  /\ place' \in [Jobs -> {"queued", "held", "acked", "dropped"}]
           /\ redelivered' \subseteq Jobs /\ losses' \in 0 .. MaxLosses
           /\ at' = "idle" /\ job' = None /\ held' = None /\ tries' = 0 /\ answer' = None
           /\ kind' = kind /\ sent' = sent
           /\ \A j \in Jobs : place'[j] = "held" <=> job' = j
  BY CapIsNat, NoneIsNothing DEF TypeOK, Settle

LEMMA NackTypes ==
    ASSUME TypeOK, job \in Jobs, Nack
    PROVE  \E to \in {"queued", "acked", "dropped"}, again \in SUBSET Jobs : Settle(to, again)
  BY DEF Nack

LEMMA HandleTypes == TypeOK /\ Handle => TypeOK'
  <1> SUFFICES ASSUME TypeOK, Handle PROVE TypeOK'
    OBVIOUS
  <1> USE CapIsNat, NoneIsNothing
  <1>0. at # "idle" => job \in Jobs
    BY DEF TypeOK
  <1>1. ASSUME NEW j \in Jobs, Deliver(j) PROVE TypeOK'
    <2>1. HandOK /\ QueueOK /\ RestOK /\ SessionTypeOK
      BY TypeParts
    <2>2. SessionTypeOK' /\ RestOK'
      BY <1>1, <2>1 DEF Deliver, SessionTypeOK, RestOK, session, history
    <2>3. CASE kind[j] = "junk"
      <3>1. HandOK'
        BY <1>1, <2>1, <2>3 DEF Deliver, HandOK, hand
      <3>2. job = None /\ job' = None /\ place' = [place EXCEPT ![j] = "dropped"] /\ kind' = kind
            /\ redelivered' = redelivered
        BY <1>1, <2>1, <2>3 DEF Deliver, HandOK, hand
      <3>3. QueueOK'
        BY <2>1, <3>2 DEF QueueOK
      <3> QED BY <2>2, <3>1, <3>3, TypePartsPrimed
    <2>4. CASE kind[j] # "junk"
      <3>1. /\ job' = j /\ held' = client /\ tries' = 0
            /\ at' \in {"publish", "member"}
            /\ answer' \in {"bad_job", "vrchat_unavailable", None}
            /\ at' = "publish" => answer' \in {"bad_job", "vrchat_unavailable"}
        BY <1>1, <2>4 DEF Deliver
      <3>2. {"bad_job", "vrchat_unavailable"} \subseteq Answers
        BY DEF Answers
      <3>3. client \in Cookies \cup {None} /\ 0 \in 0 .. Retries
        BY <2>1 DEF SessionTypeOK
      <3>4. HandOK'
        BY <3>1, <3>2, <3>3 DEF HandOK, Steps
      <3>5. job = None /\ place' = [place EXCEPT ![j] = "held"] /\ kind' = kind
            /\ redelivered' = redelivered
        BY <1>1, <2>1, <2>4 DEF Deliver, HandOK
      <3>6. QueueOK'
        BY <2>1, <3>1, <3>5 DEF QueueOK
      <3> QED BY <2>2, <3>4, <3>6, TypePartsPrimed
    <2> QED BY <2>3, <2>4
  <1>2. CASE Unauthorized
    <2>1. HandOK /\ QueueOK /\ RestOK /\ SessionTypeOK
      BY TypeParts
    <2>2. SessionTypeOK' /\ RestOK' /\ QueueOK'
      BY <1>2, <2>1 DEF Unauthorized, Invalidate, Reports, Elsewhere, queue, history,
         SessionTypeOK, RestOK, QueueOK
    <2>3. HandOK'
      BY <1>2, <1>0, <2>1 DEF Unauthorized, Reports, Refused, HandOK, Answers, Steps
    <2> QED BY <2>2, <2>3, TypePartsPrimed
  <1>3. CASE Unexpected
    <2>1. HandOK /\ QueueOK /\ RestOK /\ SessionTypeOK
      BY TypeParts
    <2>2. SessionTypeOK' /\ QueueOK' /\ HandOK'
      BY <1>3, <1>0, <2>1 DEF Unexpected, GoesTo, session, queue, SessionTypeOK, QueueOK, HandOK, Steps
    <2>3. RestOK'
      BY <1>3, <1>0, <2>1 DEF Unexpected, RestOK
    <2> QED BY <2>2, <2>3, TypePartsPrimed
  <1>4. CASE CheckMember
    BY <1>4, <1>0 DEF CheckMember, GoesTo, Reports, Elsewhere, session, queue, history,
       TypeOK, SessionTypeOK, Steps, Answers, Blames
  <1>5. CASE Create
    BY <1>5, <1>0 DEF Create, GoesTo, Reports, session, queue,
       TypeOK, SessionTypeOK, Steps, Answers, Blames
  <1>6. CASE Probe
    BY <1>6, <1>0 DEF Probe, Reading, Reports, Elsewhere, session, queue, history,
       TypeOK, SessionTypeOK, Steps, Answers, Blames
  <1>7. CASE Publish
    BY <1>7, <1>0 DEF Publish, GoesTo, session, queue, TypeOK, SessionTypeOK, Steps
  <1>8. ASSUME job \in Jobs, UNCHANGED <<session, world, changed>>,
               published' \in [Jobs -> SUBSET Answers],
               \E to \in {"queued", "acked", "dropped"}, again \in SUBSET Jobs :
                 Settle(to, again)
        PROVE  TypeOK'
    BY <1>8, SettleTypes DEF session, TypeOK, SessionTypeOK, Steps
  <1>9. CASE PublishFails
    <2>1. published' = published
      BY <1>9 DEF PublishFails
    <2> QED BY <1>9, <1>0, <2>1, <1>8, NackTypes DEF PublishFails, TypeOK
  <1>10. CASE Ack
    BY <1>10, <1>0, <1>8 DEF Ack, TypeOK
  <1>11. CASE HandleFailure
    <2>1. published' \in [Jobs -> SUBSET Answers]
      BY <1>11 DEF HandleFailure, TypeOK, Answers
    <2> QED BY <1>11, <1>0, <2>1, <1>8, NackTypes DEF HandleFailure
  <1> QED BY <1>1, <1>2, <1>3, <1>4, <1>5, <1>6, <1>7, <1>9, <1>10, <1>11 DEF Handle

LEMMA LoginTypes == SessionTypeOK /\ LoginStep => SessionTypeOK'
  BY DEF SessionTypeOK, LoginStep, Attempt, LetIn, Reject, AskCode, FindCode, TakeCode,
     LoginFails, CodeRefused, LoggedIn, Persisted, LoginSteps, Cookies

LEMMA TypesNext == TypeOK /\ [Next]_vars => TypeOK'
  <1> SUFFICES ASSUME TypeOK, [Next]_vars PROVE TypeOK'
    OBVIOUS
  <1>1. CASE Handle
    BY <1>1, HandleTypes
  <1>2. CASE LoginThread
    BY <1>2, LoginTypes DEF LoginThread, hand, Elsewhere, queue, history, TypeOK
  <1>3. CASE Clock
    BY <1>3 DEF Clock, Due, hand, Elsewhere, queue, history, TypeOK, SessionTypeOK
  <1>4. CASE SessionEnds
    BY <1>4 DEF SessionEnds, Revoke, Ended, Elsewhere, queue, history, TypeOK, SessionTypeOK, Cookies
  <1>5. CASE Crash
    <2>1. HandOK /\ QueueOK /\ RestOK /\ SessionTypeOK
      BY TypeParts
    <2>2. SessionTypeOK'
      BY <1>5, <2>1 DEF Crash, Restart, SessionTypeOK, LoginSteps
    <2>5. HandOK'
      <3>1. at' = "idle" /\ job' = None /\ held' = None /\ tries' = 0 /\ answer' = None
        BY <1>5 DEF Crash
      <3>2. 0 \in 0 .. Retries
        BY CapIsNat
      <3> QED BY <3>1, <3>2 DEF HandOK, Steps
    <2>3. QueueOK'
      <3>1. \A j \in Jobs : place[j] = "held" => job = j
        BY <2>1 DEF QueueOK
      <3>2. place' = [j \in Jobs |-> IF j = job THEN "queued" ELSE place[j]] /\ job' = None
        BY <1>5 DEF Crash
      <3>3. \A j \in Jobs : place'[j] # "held" /\ job' # j
        BY <3>1, <3>2, NoneIsNothing
      <3>4. {job} \ {None} \subseteq Jobs
        BY <2>1 DEF HandOK
      <3>5. place' \in [Jobs -> {"queued", "held", "acked", "dropped"}]
        BY <2>1, <3>2 DEF QueueOK
      <3>6. kind' = kind /\ redelivered' \subseteq Jobs
        BY <1>5, <2>1, <3>4 DEF Crash, QueueOK
      <3> QED BY <2>1, <3>3, <3>5, <3>6 DEF QueueOK
    <2>4. RestOK'
      BY <1>5, <2>1, CapIsNat DEF Crash, RestOK
    <2> QED BY <2>2, <2>3, <2>4, <2>5, TypePartsPrimed
  <1>6. ASSUME NEW w \in Worlds, WorldChanges(w) PROVE TypeOK'
    BY <1>6 DEF WorldChanges, session, hand, queue, history, TypeOK, SessionTypeOK
  <1>7. CASE UNCHANGED vars
    BY <1>7 DEF vars, session, hand, queue, history, TypeOK, SessionTypeOK
  <1> QED BY <1>1, <1>2, <1>3, <1>4, <1>5, <1>6, <1>7 DEF Next

-----------------------------------------------------------------------------
\* The session.

LEMMA SessionHandle == TypeOK /\ SessionInv /\ Handle => SessionInv'
  <1> SUFFICES ASSUME TypeOK, SessionInv, Handle PROVE SessionInv'
    OBVIOUS
  <1> USE DEF SessionInv, LoginAlone, HeldIsClient, Resumable, Calls
  <1>1. ASSUME NEW j \in Jobs, Deliver(j) PROVE SessionInv'
    BY <1>1 DEF Deliver, session, hand
  <1>2. CASE Unauthorized
    BY <1>2 DEF Unauthorized, Invalidate, Reports
  <1>3. ASSUME UNCHANGED session, at' \notin Calls PROVE SessionInv'
    BY <1>3 DEF session
  <1>4. ASSUME UNCHANGED <<session, held>>, at \in Calls PROVE SessionInv'
    BY <1>4 DEF session
  <1>5. CASE CheckMember
    BY <1>5, <1>4 DEF CheckMember, GoesTo, Reports
  <1>6. CASE Create
    BY <1>6, <1>4 DEF Create, GoesTo, Reports
  <1>7. CASE Unexpected \/ Probe \/ Publish
    BY <1>7, <1>3 DEF Unexpected, Probe, Publish, GoesTo, Reports
  <1>8. CASE PublishFails \/ Ack \/ HandleFailure
    BY <1>8, <1>3 DEF PublishFails, Ack, HandleFailure, Nack, Settle
  <1> QED BY <1>1, <1>2, <1>5, <1>6, <1>7, <1>8 DEF Handle

\* While a call is under way there is a client, so no login is.
LEMMA SessionNext == TypeOK /\ SessionInv /\ [Next]_vars => SessionInv'
  <1> SUFFICES ASSUME TypeOK, SessionInv, [Next]_vars PROVE SessionInv'
    OBVIOUS
  <1>1. CASE Handle
    BY <1>1, SessionHandle
  <1> USE DEF SessionInv, LoginAlone, HeldIsClient, Resumable
  <1>2. CASE LoginThread
    <2>1. client = None
      BY <1>2 DEF LoginThread, LoginStep, Attempt, LetIn, Reject, AskCode, FindCode,
         TakeCode, LoginFails, CodeRefused, Wants
    <2>2. at' = at /\ at \notin Calls
      BY <1>2, <2>1 DEF LoginThread, hand
    <2>3. \/ client' = None /\ login' # "idle" /\ UNCHANGED booted
          \/ client' = None /\ login' = "idle"
          \/ client' = "live" /\ stored' = "live" /\ login' = "idle" /\ booted'
      BY <1>2, <2>1 DEF LoginThread, LoginStep, Attempt, LetIn, Reject, AskCode, FindCode,
         TakeCode, LoginFails, CodeRefused, LoggedIn, Persisted
    <2> QED BY <2>2, <2>3
  <1>3. CASE Clock
    BY <1>3 DEF Clock, Due, hand
  <1>4. CASE SessionEnds
    BY <1>4, NoneIsNothing DEF SessionEnds, Revoke, Ended, TypeOK, SessionTypeOK, Cookies, Calls
  <1>5. CASE Crash
    BY <1>5 DEF Crash, Restart, Calls
  <1>6. ASSUME NEW w \in Worlds, WorldChanges(w) PROVE SessionInv'
    BY <1>6 DEF WorldChanges, session, hand
  <1>7. CASE UNCHANGED vars
    BY <1>7 DEF vars, session, hand
  <1> QED BY <1>1, <1>2, <1>3, <1>4, <1>5, <1>6, <1>7 DEF Next

-----------------------------------------------------------------------------
\* The answers.

AnswerInv == OnTheWay /\ AckedIsAnswered /\ BlameIsDeserved

LEMMA AnswerHandle == TypeOK /\ AnswerInv /\ Handle => AnswerInv'
  <1> SUFFICES ASSUME TypeOK, AnswerInv, Handle PROVE AnswerInv'
    OBVIOUS
  <1>0. None \notin Blames /\ (at # "idle" => job \in Jobs)
    BY NoneIsNothing DEF Answers, TypeOK
  <1>1. ASSUME NEW j \in Jobs, Deliver(j) PROVE AnswerInv'
    <2>1. answer' \notin Blames
      BY <1>1, NoneIsNothing DEF Deliver, AnswerInv, OnTheWay, hand, Answers, Blames
    <2>2. BlameIsDeserved'
      BY <2>1 DEF BlameIsDeserved
    <2>3. OnTheWay'
      BY <1>1 DEF Deliver, AnswerInv, OnTheWay, hand, history
    <2>4. AckedIsAnswered'
      BY <1>1 DEF Deliver, AnswerInv, AckedIsAnswered, TypeOK, history
    <2> QED BY <2>2, <2>3, <2>4 DEF AnswerInv
  <1>2. CASE Unauthorized
    BY <1>2 DEF Unauthorized, Reports, Refused, Elsewhere, queue, history,
       AnswerInv, OnTheWay, AckedIsAnswered, BlameIsDeserved, Blames
  <1>3. CASE Unexpected
    BY <1>3 DEF Unexpected, GoesTo, queue, AnswerInv, OnTheWay, AckedIsAnswered, BlameIsDeserved
  <1>4. CASE CheckMember
    BY <1>4 DEF CheckMember, GoesTo, Reports, Elsewhere, queue, history,
       AnswerInv, OnTheWay, AckedIsAnswered, BlameIsDeserved, Blames
  <1>5. CASE Create
    BY <1>5 DEF Create, GoesTo, Reports, queue,
       AnswerInv, OnTheWay, AckedIsAnswered, BlameIsDeserved, Blames
  <1>6. CASE Probe
    BY <1>6 DEF Probe, Reading, Reports, Elsewhere, queue, history,
       AnswerInv, OnTheWay, AckedIsAnswered, BlameIsDeserved, Blames
  <1>7. CASE Publish
    <2>1. answer # None
      BY <1>7 DEF Publish, TypeOK
    <2>2. \A j \in Jobs : published[j] # {} => published'[j] # {}
      BY <1>7, <1>0 DEF Publish, TypeOK
    <2>3. published'[job] # {}
      BY <1>7, <1>0 DEF Publish, TypeOK
    <2> QED BY <1>7, <2>2, <2>3 DEF Publish, GoesTo, queue,
               AnswerInv, OnTheWay, AckedIsAnswered, BlameIsDeserved
  <1>8. ASSUME job \in Jobs, UNCHANGED <<world, changed>>,
               \A j \in Jobs : published[j] # {} => published'[j] # {},
               NEW to \in {"queued", "acked", "dropped"}, NEW again, Settle(to, again),
               to = "acked" => published[job] # {}
        PROVE  AnswerInv'
    <2>1. at' = "idle" /\ answer' = None
      BY <1>8 DEF Settle
    <2>2. OnTheWay'
      BY <2>1 DEF OnTheWay
    <2>3. BlameIsDeserved'
      BY <2>1, <1>0 DEF BlameIsDeserved, Blames, TypeOK
    <2>4. AckedIsAnswered'
      BY <1>8 DEF Settle, AnswerInv, AckedIsAnswered, TypeOK
    <2> QED BY <2>2, <2>3, <2>4 DEF AnswerInv
  <1>9. CASE PublishFails
    BY <1>9, <1>8, <1>0 DEF PublishFails, Nack
  <1>10. CASE Ack
    BY <1>10, <1>8, <1>0 DEF Ack, AnswerInv, OnTheWay
  <1>11. CASE HandleFailure
    <2>1. \A j \in Jobs : published[j] # {} => published'[j] # {}
      BY <1>11, <1>0 DEF HandleFailure, TypeOK
    <2> QED BY <1>11, <1>8, <1>0, <2>1 DEF HandleFailure, Nack
  <1> QED BY <1>1, <1>2, <1>3, <1>4, <1>5, <1>6, <1>7, <1>9, <1>10, <1>11 DEF Handle

LEMMA AnswerNext == TypeOK /\ AnswerInv /\ [Next]_vars => AnswerInv'
  <1> SUFFICES ASSUME TypeOK, AnswerInv, [Next]_vars PROVE AnswerInv'
    OBVIOUS
  <1>1. CASE Handle
    BY <1>1, AnswerHandle
  <1>2. CASE UNCHANGED <<at, answer, job, world, changed, published, place>>
    BY <1>2 DEF AnswerInv, OnTheWay, AckedIsAnswered, BlameIsDeserved
  <1>3. CASE LoginThread \/ Clock \/ SessionEnds
    BY <1>2, <1>3 DEF LoginThread, Clock, SessionEnds, Elsewhere, hand, queue, history
  <1>4. CASE Crash
    BY <1>4, NoneIsNothing DEF Crash, AnswerInv, OnTheWay, AckedIsAnswered, BlameIsDeserved,
       Answers
  <1>5. ASSUME NEW w \in Worlds, WorldChanges(w) PROVE AnswerInv'
    BY <1>5 DEF WorldChanges, hand, queue, history, AnswerInv, OnTheWay, AckedIsAnswered,
       BlameIsDeserved
  <1>6. CASE UNCHANGED vars
    BY <1>2, <1>6 DEF vars, hand, queue, history
  <1> QED BY <1>1, <1>3, <1>4, <1>5, <1>6 DEF Next

LEMMA InvNext == Inv /\ [Next]_vars => Inv'
  BY TypesNext, SessionNext, AnswerNext DEF Inv, AnswerInv

LEMMA InvHolds == Spec => []Inv
  BY InvInit, InvNext, PTL DEF Spec

\* Every variable of the worker and its session keeps its type: the handler
\* holds a job exactly while it is at one, and never publishes nothing.
THEOREM WorkerTypeCorrect == Spec => []TypeOK
  <1>1. Inv => TypeOK
    BY DEF Inv
  <1> QED BY <1>1, InvHolds, PTL

\* A restart of vrc_session.py resumes the session that was in use.
THEOREM SessionsResume == Spec => []Resumable
  <1>1. Inv => Resumable
    BY DEF Inv, SessionInv
  <1> QED BY <1>1, InvHolds, PTL

\* process_job acks only after publish_result has returned.
THEOREM AckedJobsAreAnswered == Spec => []AckedIsAnswered
  <1>1. Inv => AckedIsAnswered
    BY DEF Inv
  <1> QED BY <1>1, InvHolds, PTL

\* The probe behind a 403 or a 404 never blames for what is not so.
THEOREM BlamesAreDeserved == Spec => []BlameIsDeserved
  <1>1. Inv => BlameIsDeserved
    BY DEF Inv
  <1> QED BY <1>1, InvHolds, PTL

\* invalidate, by the consumer thread, never clears a client that VRChat takes,
\* and neither does a login that ends late: a login only runs while there is
\* no client, and the client of a call under way is never replaced.
THEOREM OwnSessionsAreCleared == Spec => ClearsOwnSession
  <1>1. Inv /\ [Next]_vars => [client = "live" /\ booted' => client' # None]_session
    <2> SUFFICES ASSUME Inv, [Next]_vars, client = "live", booted', client' = None
                 PROVE  FALSE
      BY DEF session
    <2>0. client # None
      BY NoneIsNothing DEF Cookies
    <2>1. login = "idle" /\ booted
      BY <2>0 DEF Inv, SessionInv, LoginAlone, TypeOK, SessionTypeOK
    <2>2. CASE Unauthorized
      BY <2>2 DEF Unauthorized, Inv, SessionInv, HeldIsClient, Calls
    <2>3. CASE LoginThread
      BY <2>0, <2>1, <2>3 DEF LoginThread, LoginStep, Attempt, LetIn, Reject, AskCode, FindCode,
         TakeCode, LoginFails, CodeRefused, Wants
    <2>4. CASE SessionEnds
      BY <2>0, <2>4, NoneIsNothing DEF SessionEnds, Revoke, Ended, Cookies
    <2>5. CASE Crash
      BY <2>5 DEF Crash, Restart
    <2>6. CASE UNCHANGED client
      BY <2>0, <2>6
    <2>7. CASE Handle
      BY <2>2, <2>6, <2>7 DEF Handle, Deliver, Unexpected, CheckMember, Create, Probe, Publish,
         PublishFails, Ack, HandleFailure, session
    <2> QED BY <2>3, <2>4, <2>5, <2>6, <2>7
            DEF Next, Clock, Due, WorldChanges, session, vars
  <1> QED BY <1>1, InvHolds, PTL DEF Spec, ClearsOwnSession

-----------------------------------------------------------------------------
\* The calls: a run makes at most Retries of them, a job has one run, and one
\* more for the nack that requeues it and for each loss.

Runs(n) == Retries * n

LEMMA RunsGrow ==
    \A n \in Nat : Runs(n) \in Nat /\ Runs(n + 1) = Runs(n) + Retries
  BY CapIsNat DEF Runs

\* What earlier runs of a job may have made ...
Before(j) == IF j \in redelivered THEN Runs(1 + losses) ELSE 0

\* ... and what the run under way may have.
Made ==
    IF at = "member" THEN 0 ELSE IF at = "create" THEN tries ELSE Retries

CallsInv ==
    /\ at = "create" => tries < Retries
    /\ at = "member" => tries = 0
    /\ \A j \in Jobs :
         /\ place[j] = "queued" => sent[j] <= Before(j)
         /\ place[j] = "held" => sent[j] <= Before(j) + Made
         /\ sent[j] <= Runs(2 + losses)

LEMMA Bounds ==
    ASSUME TypeOK
    PROVE  /\ losses \in Nat /\ tries \in Nat /\ tries <= Retries
           /\ Retries \in Nat /\ Retries > 0
           /\ Runs(1 + losses) \in Nat /\ Runs(2 + losses) = Runs(1 + losses) + Retries
           /\ Runs(2 + losses) \in Nat
           /\ Runs(1 + (losses + 1)) = Runs(2 + losses)
           /\ Runs(2 + (losses + 1)) = Runs(2 + losses) + Retries
           /\ Retries <= Runs(1 + losses)
           /\ \A j \in Jobs : sent[j] \in Nat /\ Before(j) \in Nat
           /\ Made \in Nat /\ Made <= Retries
  <1>1. losses \in Nat /\ tries \in Nat /\ tries <= Retries /\ Retries \in Nat /\ Retries > 0
    BY CapIsNat DEF TypeOK
  <1>2. Runs(1 + losses) \in Nat /\ Runs((1 + losses) + 1) = Runs(1 + losses) + Retries
    BY <1>1, RunsGrow
  <1>3. (1 + losses) + 1 = 2 + losses /\ 1 + (losses + 1) = 2 + losses
        /\ 2 + (losses + 1) = (2 + losses) + 1 /\ 2 + losses \in Nat
    BY <1>1
  <1>4. Runs((2 + losses) + 1) = Runs(2 + losses) + Retries
    BY <1>3, RunsGrow
  <1>5. Retries <= Runs(1 + losses)
    <2>1. Runs(losses) \in Nat /\ Runs(losses + 1) = Runs(losses) + Retries
      BY <1>1, RunsGrow
    <2>2. losses + 1 = 1 + losses
      BY <1>1
    <2> QED BY <1>1, <2>1, <2>2
  <1>6. \A j \in Jobs : sent[j] \in Nat
    BY CapIsNat DEF TypeOK
  <1>7. Runs(2 + losses) \in Nat
    BY <1>1, <1>2, <1>3
  <1> QED BY <1>1, <1>2, <1>3, <1>4, <1>5, <1>6, <1>7 DEF Before, Made

\* A job that is settled: what its run made is now before.
LEMMA CallsSettle ==
    ASSUME TypeOK, CallsInv, job \in Jobs,
           \/ Nack
           \/ Settle("acked", {})
    PROVE  CallsInv'
  <1>1. PICK to \in {"queued", "acked", "dropped"}, again \in SUBSET Jobs :
          /\ Settle(to, again)
          /\ to = "queued" => job \notin redelivered /\ again = {job}
          /\ to # "queued" => again = {}
    BY DEF Nack
  <1>2. place[job] = "held" /\ at' = "idle" /\ sent' = sent
    BY <1>1 DEF TypeOK, Settle
  <1>3. sent[job] <= Before(job) + Retries
    BY <1>2, Bounds DEF CallsInv
  <1>4. CASE losses' = losses + 1
    <2>1. place' = [place EXCEPT ![job] = "queued"] /\ redelivered' = redelivered \cup {job}
      BY <1>1, <1>4, Bounds DEF Settle
    <2>2. \A j \in Jobs : sent[j] <= Runs(2 + losses')
      BY <1>4, Bounds DEF CallsInv
    <2>3. \A j \in Jobs : j = job => sent[j] <= Before(j)'
      BY <1>3, <1>4, <2>1, Bounds DEF Before
    <2>4. \A j \in Jobs \ {job} : place'[j] = place[j] /\ Before(j) <= Before(j)'
      BY <1>4, <2>1, Bounds DEF Before, TypeOK
    <2>5. place'[job] = "queued"
      BY <2>1 DEF TypeOK
    <2>6. \A j \in Jobs \ {job} : place[j] # "held"
      BY DEF TypeOK
    <2>7. \A j \in Jobs \ {job} : place'[j] = "queued" => sent[j] <= Before(j)'
      BY <2>4, <1>4, <2>1, Bounds DEF CallsInv, Before
    <2> QED BY <1>2, <2>2, <2>3, <2>4, <2>5, <2>6, <2>7 DEF CallsInv
  <1>5. CASE losses' = losses
    <2>1. place' = [place EXCEPT ![job] = to] /\ redelivered' = redelivered \cup again
      BY <1>1, <1>5, Bounds DEF Settle
    <2>2. \A j \in Jobs : sent[j] <= Runs(2 + losses')
      BY <1>5 DEF CallsInv
    <2>3. to = "queued" => \A j \in Jobs : j = job => sent[j] <= Before(j)'
      BY <1>1, <1>3, <1>5, <2>1, Bounds DEF Before
    <2>4. \A j \in Jobs \ {job} : place'[j] = place[j] /\ Before(j)' = Before(j)
      BY <1>1, <1>5, <2>1 DEF Before, TypeOK
    <2>5. place'[job] = to
      BY <2>1 DEF TypeOK
    <2>6. \A j \in Jobs \ {job} : place[j] # "held"
      BY DEF TypeOK
    <2> QED BY <1>2, <2>2, <2>3, <2>4, <2>5, <2>6 DEF CallsInv
  <1> QED BY <1>1, <1>4, <1>5 DEF Settle

LEMMA CallsHandle == TypeOK /\ TypeOK' /\ CallsInv /\ Handle => CallsInv'
  <1> SUFFICES ASSUME TypeOK, TypeOK', CallsInv, Handle PROVE CallsInv'
    OBVIOUS
  <1>0. at # "idle" => job \in Jobs
    BY DEF TypeOK
  <1>1. ASSUME NEW j \in Jobs, Deliver(j) PROVE CallsInv'
    <2>1. sent' = sent /\ losses' = losses /\ redelivered' = redelivered
      BY <1>1 DEF Deliver, history
    <2>2. /\ place[j] = "queued" /\ place' \in {[place EXCEPT ![j] = "dropped"], [place EXCEPT ![j] = "held"]}
          /\ at' # "create" /\ (at' = "member" => tries' = 0)
      BY <1>1 DEF Deliver, hand
    <2>3. \A k \in Jobs : Before(k)' = Before(k)
      BY <2>1 DEF Before
    <2>4. \A k \in Jobs \ {j} : place[k] # "held" /\ place'[k] = place[k]
      BY <1>1, <2>2, NoneIsNothing DEF Deliver, TypeOK
    <2>5. Made' \in Nat
      BY <2>2, Bounds DEF Made
    <2>6. place'[j] # "queued" /\ sent[j] <= Before(j)
      BY <2>2 DEF TypeOK, CallsInv
    <2>7. sent[j] <= Before(j) + Made'
      BY <2>5, <2>6, Bounds
    <2> QED BY <2>1, <2>2, <2>3, <2>4, <2>6, <2>7 DEF CallsInv
  \* A step of a run that makes no call, and one that makes one.
  <1>2. ASSUME UNCHANGED <<place, redelivered, losses, job, sent>>,
               at' # "create" \/ at = "member", tries' = 0, at' # "member" PROVE CallsInv'
    <2>1. \A j \in Jobs : Before(j)' = Before(j)
      BY <1>2 DEF Before
    <2>2. Made' \in Nat /\ Made <= Made'
      <3>1. Retries \in Nat /\ Made \in Nat /\ Made <= Retries
        BY Bounds
      <3>2. CASE at' = "create"
        BY <1>2, <3>2 DEF Made
      <3>3. CASE at' # "create"
        BY <1>2, <3>1, <3>3 DEF Made
      <3> QED BY <3>2, <3>3
    <2>3. \A j \in Jobs : place[j] = "held" => sent[j] <= Before(j) + Made'
      BY <2>2, Bounds DEF CallsInv
    <2> QED BY <1>2, <2>1, <2>3, Bounds DEF CallsInv
  <1>3. ASSUME UNCHANGED <<place, redelivered, losses, job>>, job \in Jobs,
               sent' \in {sent, [sent EXCEPT ![job] = @ + 1]}, at = "create",
               at' # "member", at' = "create" => tries' = tries + 1 /\ tries' < Retries
        PROVE  CallsInv'
    <2>1. \A j \in Jobs : Before(j)' = Before(j)
      BY <1>3 DEF Before
    <2>2. Made = tries /\ tries < Retries /\ Made' \in Nat /\ Made + 1 <= Made'
          /\ Made' <= Retries
      BY <1>3, Bounds DEF Made, CallsInv
    <2>3. place[job] = "held" /\ \A j \in Jobs \ {job} : place[j] # "held"
      BY <1>3 DEF TypeOK
    <2>4. sent[job] <= Before(job) + Made
      BY <1>3, <2>3 DEF CallsInv
    <2>5. sent'[job] <= sent[job] + 1 /\ sent'[job] \in Nat /\ \A j \in Jobs \ {job} : sent'[j] = sent[j]
      BY <1>3, Bounds DEF TypeOK
    <2>6. sent'[job] <= Before(job) + Made'
      BY <1>3, <2>2, <2>4, <2>5, Bounds
    <2>7. Before(job) <= Runs(1 + losses)
      BY Bounds DEF Before
    <2>8. sent'[job] <= Runs(2 + losses)
      BY <1>3, <2>2, <2>5, <2>6, <2>7, Bounds
    <2> QED BY <1>3, <2>1, <2>3, <2>5, <2>6, <2>8 DEF CallsInv
  <1>4. CASE Unauthorized
    <2>1. at' # "create" /\ at' # "member"
      BY <1>4 DEF Unauthorized, Reports
    <2> QED BY <1>4, <1>2, <2>1 DEF Unauthorized, Reports, Elsewhere, queue, history
  <1>5. CASE Unexpected /\ at = "member"
    <2>1. tries' = 0
      BY <1>5 DEF Unexpected, GoesTo, CallsInv
    <2> QED BY <1>5, <1>2, <2>1 DEF Unexpected, GoesTo, queue
  <1>6. CASE Unexpected /\ at = "create"
    <2>1. sent' \in {sent, [sent EXCEPT ![job] = @ + 1]}
      BY <1>6, <1>0 DEF Unexpected, TypeOK
    <2> QED BY <1>6, <1>3, <1>0, <2>1 DEF Unexpected, GoesTo, queue
  <1>7. CASE CheckMember
    <2>1. tries' = 0
      BY <1>7 DEF CheckMember, Reports, GoesTo, CallsInv
    <2> QED BY <1>7, <1>2, <2>1 DEF CheckMember, Reports, GoesTo, Elsewhere, queue, history
  <1>8. CASE Create
    <2>1. sent' \in {sent, [sent EXCEPT ![job] = @ + 1]}
      BY <1>8, <1>0 DEF Create, TypeOK
    <2> QED BY <1>8, <1>3, <1>0, <2>1 DEF Create, Reports, GoesTo, queue
  <1>9. CASE Probe
    BY <1>9, <1>2 DEF Probe, Reports, Elsewhere, queue, history
  <1>10. CASE Publish
    <2>1. Made' = Made /\ UNCHANGED <<place, redelivered, losses, sent>>
          /\ at' # "create" /\ at' # "member"
      BY <1>10 DEF Publish, GoesTo, queue, Made
    <2>2. \A j \in Jobs : Before(j)' = Before(j)
      BY <2>1 DEF Before
    <2> QED BY <2>1, <2>2 DEF CallsInv
  <1>11. CASE PublishFails \/ Ack \/ HandleFailure
    BY <1>11, <1>0, CallsSettle DEF PublishFails, Ack, HandleFailure
  <1> QED BY <1>1, <1>4, <1>5, <1>6, <1>7, <1>8, <1>9, <1>10, <1>11 DEF Handle, Unexpected

LEMMA CallsNext == TypeOK /\ TypeOK' /\ CallsInv /\ [Next]_vars => CallsInv'
  <1> SUFFICES ASSUME TypeOK, TypeOK', CallsInv, [Next]_vars PROVE CallsInv'
    OBVIOUS
  <1>1. CASE Handle
    BY <1>1, CallsHandle
  <1>2. CASE UNCHANGED <<place, redelivered, losses, sent, at, tries>>
    <2>1. Made' = Made /\ \A j \in Jobs : Before(j)' = Before(j)
      BY <1>2 DEF Made, Before
    <2> QED BY <1>2, <2>1 DEF CallsInv
  <1>3. CASE LoginThread \/ Clock \/ SessionEnds \/ \E w \in Worlds : WorldChanges(w)
    BY <1>2, <1>3 DEF LoginThread, Clock, SessionEnds, WorldChanges, Elsewhere, hand, queue, history
  <1>4. CASE Crash
    <2>1. /\ losses' = losses + 1 /\ sent' = sent /\ at' = "idle"
          /\ place' = [j \in Jobs |-> IF j = job THEN "queued" ELSE place[j]]
          /\ redelivered' = redelivered \cup ({job} \ {None})
      BY <1>4 DEF Crash
    <2>2. \A j \in Jobs : sent[j] <= Runs(2 + losses')
      BY <2>1, Bounds DEF CallsInv
    <2>3. \A j \in Jobs : place'[j] # "held"
      BY <2>1 DEF TypeOK
    <2>4. \A j \in Jobs : place'[j] = "queued" => sent[j] <= Before(j)'
      <3> SUFFICES ASSUME NEW j \in Jobs, place'[j] = "queued" PROVE sent[j] <= Before(j)'
        OBVIOUS
      <3>1. CASE j = job
        <4>1. Before(j)' = Runs(2 + losses)
          BY <2>1, <3>1, NoneIsNothing, Bounds DEF Before
        <4> QED BY <4>1 DEF CallsInv
      <3>2. CASE j # job
        <4>1. sent[j] <= Before(j)
          BY <2>1, <3>2 DEF CallsInv
        <4>2. Before(j)' \in Nat /\ Before(j) <= Before(j)'
          BY <2>1, <3>2, Bounds DEF Before
        <4> QED BY <4>1, <4>2, Bounds
      <3> QED BY <3>1, <3>2
    <2> QED BY <2>1, <2>2, <2>3, <2>4 DEF CallsInv
  <1>5. CASE UNCHANGED vars
    BY <1>2, <1>5 DEF vars, hand, queue, history
  <1> QED BY <1>1, <1>3, <1>4, <1>5 DEF Next

\* One press costs at most two runs of Retries calls, and one more for each
\* crash or lost connection, whatever fails: the redelivered flag is all the
\* worker has to count with.
THEOREM CallsAreBounded == Spec => []CallsBounded
  <1>1. Init => CallsInv
    <2> SUFFICES ASSUME Init PROVE CallsInv
      OBVIOUS
    <2>1. TypeOK
      BY InvInit DEF Inv
    <2> QED BY <2>1, Bounds DEF Init, CallsInv
  <1>2. Inv /\ Inv' /\ CallsInv /\ [Next]_vars => CallsInv'
    BY CallsNext DEF Inv
  <1>3. Inv /\ CallsInv => CallsBounded
    BY DEF CallsInv, CallsBounded, Runs
  <1> QED BY <1>1, <1>2, <1>3, InvHolds, PTL DEF Spec
=============================================================================
