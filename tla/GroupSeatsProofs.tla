-------------------------- MODULE GroupSeatsProofs --------------------------
(***************************************************************************)
(* Group setup and seats, for every set of servers, groups, accounts and    *)
(* jobs: a group is verified for a server only by the server's own code.    *)
(***************************************************************************)
EXTENDS GroupSeats, FiniteSetTheorems, TLAPS

\* The job a setup waits for was drawn for the group and code it has now, and
\* leaves the code unasked for only where the code has been proved.
Stamped ==
    \A g \in Guilds : config[g].checking # None =>
      LET j == job[config[g].checking] IN
      /\ j # None
      /\ j.guild = g /\ j.group = config[g].group /\ j.code = config[g].code
      /\ j.requireCode \/ config[g].verified

Grouped == \A g \in Guilds : config[g].verified => config[g].group # None

\* A job that is on its way, or answered, has been drawn.
Drawn ==
    /\ \A j \in outbox \cup unsent : job[j] # None
    /\ \A a \in Accounts : \A i \in 1 .. Len(queue[a]) : job[queue[a][i]] # None
    /\ \A r \in results : job[r[1]] # None

\* A check is answered with a verdict on the setup, and one that asked for the
\* code is answered "ready" only where it was.
ReadyShown ==
    \A r \in results :
      /\ job[r[1]].kind = "verify" => r[2] \in {"ready", "refused"}
      /\ r[2] = "ready" /\ job[r[1]].requireCode => job[r[1]].code \in proved

Inv == TypeOK /\ Stamped /\ Grouped /\ Drawn /\ ReadyShown /\ SetupProven

LEMMA InvInit == Init => Inv
  <1> SUFFICES ASSUME Init PROVE Inv
    OBVIOUS
  <1>1. \A a \in Accounts : <<>> \in Seq(Jobs) /\ Len(<<>>) = 0
    OBVIOUS
  <1>4. /\ OldSetup \subseteq Config /\ Blank \in Config
        /\ \A row \in OldSetup : row.checking = None /\ row.group # None
        /\ Blank.checking = None /\ Blank.verified = FALSE
    BY NoneIsNothing DEF OldSetup, Config, Blank, SetupStates
  <1>5. config \in [Guilds -> Config] /\ config \in [Guilds -> OldSetup \cup {Blank}]
    BY <1>4 DEF Init
  <1>6. \A g \in Guilds : g \in Legacy => config[g] \in OldSetup
    BY <1>5 DEF Init
  <1>7. OldCodes \subseteq Codes
    BY <1>6, LegacyGuilds DEF OldCodes, OldSetup
  <1>8. inside \subseteq Accounts \X Groups
    <2>1. PICK by \in [Legacy -> Accounts] : inside = {<<by[g], config[g].group>> : g \in Legacy}
      BY DEF Init
    <2>2. \A g \in Legacy : by[g] \in Accounts /\ config[g].group \in Groups
      BY <1>6, <2>1, LegacyGuilds DEF OldSetup
    <2> QED BY <2>1, <2>2
  <1>2. TypeOK
    BY <1>1, <1>5, <1>7, <1>8 DEF Init, TypeOK
  <1>3. Drawn
    BY <1>1 DEF Init, Drawn
  <1>9. Stamped /\ Grouped
    BY <1>4, <1>5 DEF Stamped, Grouped
  <1>10. SetupProven
    <2> SUFFICES ASSUME NEW g \in Guilds, config[g].verified PROVE config[g].code \in proved
      BY DEF SetupProven
    <2>1. g \in Legacy
      BY <1>4 DEF Init
    <2> QED BY <2>1 DEF Init, OldCodes
  <1> QED BY <1>2, <1>3, <1>9, <1>10 DEF Init, Inv, ReadyShown

\* A lease that is made or kept is a lease.
LEMMA ReservedIsLease ==
    ASSUME NEW l \in Lease \cup {None}, NEW a \in Accounts
    PROVE  Reserved(l, a) \in Lease
  BY NoneIsNoRecord DEF Reserved, Lease

\* A job that is drawn is stored, and no other changes.
LEMMA BeginDraws ==
    ASSUME Inv, NEW j \in Jobs, NEW record \in Job, Begin(j, record)
    PROVE  /\ job' \in [Jobs -> Job \cup {None}] /\ outbox' \subseteq Jobs
           /\ \A k \in Jobs : job[k] # None => job'[k] = job[k]
           /\ job'[j] = record /\ record # None
           /\ \A k \in outbox' : job'[k] # None
  BY NoneIsNoRecord DEF Inv, TypeOK, Begin, Drawn

LEMMA EnqueuedJobs ==
    ASSUME TypeOK, Drawn, NEW j \in Jobs, job[j] # None
    PROVE  /\ Enqueued(j) \in [Accounts -> Seq(Jobs)]
           /\ \A a \in Accounts : \A i \in 1 .. Len(Enqueued(j)[a]) :
                 job[Enqueued(j)[a][i]] # None
  <1>1. \A q \in Seq(Jobs) : /\ Append(q, j) \in Seq(Jobs)
                             /\ Len(Append(q, j)) = Len(q) + 1
                             /\ \A i \in 1 .. Len(q) : Append(q, j)[i] = q[i]
                             /\ Append(q, j)[Len(q) + 1] = j
    OBVIOUS
  <1>2. Enqueued(j) \in [Accounts -> Seq(Jobs)]
    BY <1>1 DEF TypeOK, Enqueued
  <1>3. ASSUME NEW a \in Accounts, NEW i \in 1 .. Len(Enqueued(j)[a])
        PROVE  job[Enqueued(j)[a][i]] # None
    <2>1. CASE a = job[j].account
      <3>1. Enqueued(j)[a] = Append(queue[a], j) /\ queue[a] \in Seq(Jobs)
        BY <2>1 DEF Enqueued, TypeOK
      <3>2. i \in 1 .. Len(queue[a]) \/ i = Len(queue[a]) + 1
        BY <1>1, <3>1
      <3> QED BY <1>1, <3>1, <3>2 DEF Drawn
    <2>2. CASE a # job[j].account
      BY <2>2 DEF Enqueued, TypeOK, Drawn
    <2> QED BY <2>1, <2>2
  <1> QED BY <1>2, <1>3

\* What was so of the jobs in flight stays so while jobs are only drawn.
LEMMA DrawnKept ==
    ASSUME Inv, UNCHANGED work,
           \A k \in Jobs : job[k] # None => job'[k] = job[k],
           \A k \in outbox' \cup unsent' : job'[k] # None,
           proved \subseteq proved'
    PROVE  Drawn' /\ ReadyShown'
  <1>1. \A a \in Accounts : \A i \in 1 .. Len(queue[a]) : queue[a][i] \in Jobs
    BY DEF Inv, TypeOK
  <1>2. \A r \in results : r[1] \in Jobs
    BY DEF Inv, TypeOK
  <1>3. Drawn'
    BY <1>1, <1>2, NoneIsNoRecord DEF Inv, Drawn, work
  <1>4. ReadyShown'
    BY <1>2 DEF Inv, Drawn, ReadyShown, work
  <1> QED BY <1>3, <1>4

\* A row whose state and job are set is a row, and the rest of it stays.
LEMMA RowType ==
    ASSUME config \in [Guilds -> Config], NEW g \in Guilds,
           NEW state \in SetupStates, NEW j \in Jobs \cup {None}
    PROVE  /\ [config EXCEPT ![g].state = state, ![g].checking = j] \in [Guilds -> Config]
           /\ \A h \in Guilds :
                LET row == [config EXCEPT ![g].state = state, ![g].checking = j][h] IN
                /\ row.group = config[h].group /\ row.code = config[h].code
                /\ row.verified = config[h].verified
                /\ row.checking = IF h = g THEN j ELSE config[h].checking
  BY DEF Config

\* Steps away from the setups and the jobs keep what is known of them.
LEMMA Quiet ==
    ASSUME Inv, TypeOK', UNCHANGED <<config, job, queue, results, proved>>,
           outbox' \subseteq outbox, unsent' \subseteq unsent
    PROVE  Inv'
  BY DEF Inv, Stamped, Grouped, Drawn, ReadyShown, SetupProven

LEMMA InvCheck ==
    ASSUME Inv, NEW g \in Guilds, Check(g)
    PROVE  Inv'
  <1> DEFINE record(a) == [kind |-> "verify", guild |-> g, group |-> config[g].group,
                           account |-> a, code |-> config[g].code,
                           requireCode |-> ~config[g].verified]
             stamped(j) == [config EXCEPT ![g].state = "checking", ![g].checking = j]
  <1>1. PICK a \in Assignable(g) :
          /\ lease' = [lease EXCEPT ![g] = Reserved(@, a)]
          /\ \/ config[g].group = None /\ UNCHANGED <<config, job, outbox>>
             \/ /\ config[g].group # None
                /\ \E j \in Jobs : Begin(j, record(a)) /\ config' = stamped(j)
    BY DEF Check
  <1>2. a \in Accounts
    BY DEF Assignable, AccountsOf, LeastLoaded
  <1>3. lease' \in [Guilds -> Lease \cup {None}] /\ outdated' \subseteq Jobs
    BY <1>1, <1>2, ReservedIsLease DEF Check, Inv, TypeOK
  <1>4. UNCHANGED <<unsent, work, sweep, fresh, inside, proved>>
    BY DEF Check
  <1>5. CASE config[g].group = None
    <2>1. UNCHANGED <<config, job, outbox>>
      BY <1>1, <1>5
    <2>2. TypeOK'
      BY <1>3, <1>4, <2>1 DEF Inv, TypeOK, work
    <2> QED BY <1>4, <2>1, <2>2, Quiet DEF work
  <1>6. CASE config[g].group # None
    <2>1. PICK j \in Jobs : Begin(j, record(a)) /\ config' = stamped(j)
      BY <1>1, <1>6
    <2>2. record(a) \in Job
      BY <1>2, <1>6 DEF Inv, TypeOK, Config, Job
    <2> HIDE DEF record
    <2>3. /\ job' \in [Jobs -> Job \cup {None}] /\ outbox' \subseteq Jobs
          /\ \A k \in Jobs : job[k] # None => job'[k] = job[k]
          /\ job'[j] = record(a) /\ record(a) # None
          /\ \A k \in outbox' : job'[k] # None
      BY <2>1, <2>2, BeginDraws
    <2>4. config' \in [Guilds -> Config]
      BY <2>1, RowType DEF Inv, TypeOK, SetupStates
    <2>5. /\ config'[g].checking = j
          /\ \A h \in Guilds :
               /\ config'[h].group = config[h].group /\ config'[h].code = config[h].code
               /\ config'[h].verified = config[h].verified
               /\ h # g => config'[h].checking = config[h].checking
      BY <2>1 DEF Inv, TypeOK, Config
    <2>6. TypeOK'
      BY <1>3, <1>4, <2>3, <2>4 DEF Inv, TypeOK, work
    <2>7. Stamped'
      <3>1. record(a).guild = g /\ record(a).group = config[g].group
            /\ record(a).code = config[g].code
            /\ record(a).requireCode = ~config[g].verified
        BY DEF record
      <3>2. \A h \in Guilds : config[h].checking \in Jobs \cup {None}
        BY DEF Inv, TypeOK, Config
      <3> SUFFICES ASSUME NEW h \in Guilds, config'[h].checking # None
                   PROVE LET r == job'[config'[h].checking] IN
                         /\ r # None
                         /\ r.guild = h /\ r.group = config'[h].group /\ r.code = config'[h].code
                         /\ r.requireCode \/ config'[h].verified
        BY DEF Stamped
      <3>3. CASE h = g
        BY <2>3, <2>5, <3>1, <3>3
      <3>4. CASE h # g
        BY <2>3, <2>5, <3>2, <3>4 DEF Inv, Stamped
      <3> QED BY <3>3, <3>4
    <2>8. Drawn' /\ ReadyShown'
      <3>1. \A k \in unsent' : job'[k] # None
        BY <1>4, <2>3, NoneIsNoRecord DEF Inv, TypeOK, Drawn
      <3> QED BY <1>4, <2>3, <3>1, DrawnKept
    <2>9. Grouped' /\ SetupProven'
      BY <1>4, <2>5 DEF Inv, Grouped, SetupProven
    <2> QED BY <2>6, <2>7, <2>8, <2>9 DEF Inv
  <1> QED BY <1>5, <1>6

LEMMA InvSaveGroup ==
    ASSUME Inv, NEW g \in Guilds, NEW gr \in Groups \cup {None}, SaveGroup(g, gr)
    PROVE  Inv'
  <1> DEFINE record(a) == [kind |-> "displaced", guild |-> g, group |-> config[g].group,
                           account |-> a, code |-> None, requireCode |-> FALSE]
  <1>1. /\ config' \in [Guilds -> Config] /\ fresh' \subseteq Codes
        /\ config'[g].checking = None /\ ~config'[g].verified
        /\ \A h \in Guilds \ {g} : config'[h] = config[h]
    <2>1. CASE gr = None
      <3>1. config' = [config EXCEPT ![g] = Blank] /\ UNCHANGED fresh
        BY <2>1 DEF SaveGroup
      <3>2. Blank \in Config /\ Blank.checking = None /\ Blank.verified = FALSE
        BY DEF Config, Blank, SetupStates
      <3> QED BY <3>1, <3>2 DEF Inv, TypeOK
    <2>2. CASE gr # None
      <3>1. PICK c \in fresh :
              /\ fresh' = fresh \ {c}
              /\ config' = [config EXCEPT ![g] = [Blank EXCEPT !.group = gr, !.code = c]]
        BY <2>2 DEF SaveGroup
      <3> QED BY <2>2, <3>1 DEF Inv, TypeOK, Config, Blank, SetupStates
    <2> QED BY <2>1, <2>2
  <1>2. UNCHANGED <<lease, unsent, work, sweep, inside, proved, outdated>>
    BY DEF SaveGroup
  <1>3. /\ job' \in [Jobs -> Job \cup {None}] /\ outbox' \subseteq Jobs
        /\ \A k \in Jobs : job[k] # None => job'[k] = job[k]
        /\ \A k \in outbox' : job'[k] # None
    <2>1. CASE config[g].verified /\ AccountsOf(g) # {}
      <3>1. PICK j \in Jobs, a \in AccountsOf(g) : Begin(j, record(a))
        BY <2>1 DEF SaveGroup
      <3>2. record(a) \in Job
        BY <2>1 DEF Inv, TypeOK, Config, Job, Grouped, AccountsOf
      <3> HIDE DEF record
      <3> QED BY <3>1, <3>2, BeginDraws
    <2>2. CASE ~(config[g].verified /\ AccountsOf(g) # {})
      BY <2>2 DEF SaveGroup, Inv, TypeOK, Drawn
    <2> QED BY <2>1, <2>2
  <1>4. TypeOK'
    BY <1>1, <1>2, <1>3 DEF Inv, TypeOK, work
  <1>5. Stamped'
    <2>1. \A h \in Guilds : config[h].checking \in Jobs \cup {None}
      BY DEF Inv, TypeOK, Config
    <2> QED BY <1>1, <1>3, <2>1 DEF Inv, Stamped
  <1>6. Drawn' /\ ReadyShown'
    <2>1. \A k \in unsent' : job'[k] # None
      BY <1>2, <1>3, NoneIsNoRecord DEF Inv, TypeOK, Drawn
    <2> QED BY <1>2, <1>3, <2>1, DrawnKept
  <1>7. Grouped' /\ SetupProven'
    BY <1>1, <1>2 DEF Inv, Grouped, SetupProven
  <1> QED BY <1>4, <1>5, <1>6, <1>7 DEF Inv

LEMMA InvPublish ==
    ASSUME Inv, NEW j \in Jobs, Publish(j)
    PROVE  Inv'
  <1>1. /\ Enqueued(j) \in [Accounts -> Seq(Jobs)]
        /\ \A a \in Accounts : \A i \in 1 .. Len(Enqueued(j)[a]) :
              job[Enqueued(j)[a][i]] # None
    BY EnqueuedJobs DEF Publish, Inv, Drawn
  <1>2. /\ UNCHANGED <<config, lease, job, again, results, sweep, fresh, inside, proved, outdated>>
        /\ outbox' \subseteq outbox /\ unsent' \subseteq unsent \cup {j} /\ j \in outbox
        /\ queue' = queue \/ queue' = Enqueued(j)
    BY DEF Publish
  <1>3. TypeOK'
    BY <1>1, <1>2 DEF Inv, TypeOK
  <1>4. Drawn'
    BY <1>1, <1>2 DEF Inv, Drawn
  <1> QED BY <1>2, <1>3, <1>4 DEF Inv, Stamped, Grouped, ReadyShown, SetupProven

LEMMA InvAbandonCheck ==
    ASSUME Inv, NEW j \in Jobs, AbandonCheck(j)
    PROVE  Inv'
  <1> DEFINE g == job[j].guild
             row == [config[g] EXCEPT !.state = "worker_unreachable", !.checking = None]
  <1>1. g \in Guilds
    BY DEF AbandonCheck, Inv, TypeOK, Drawn, Job
  <1>2. /\ UNCHANGED <<lease, job, outbox, work, sweep, fresh, inside, proved, outdated>>
        /\ unsent' \subseteq unsent
        /\ config' = [config EXCEPT ![g] = row] \/ config' = config
    BY DEF AbandonCheck
  <1> HIDE DEF g
  <1>3. /\ config' \in [Guilds -> Config]
        /\ \A h \in Guilds : /\ config'[h].group = config[h].group
                             /\ config'[h].code = config[h].code
                             /\ config'[h].verified = config[h].verified
                             /\ config'[h].checking \in {config[h].checking, None}
    <2>1. /\ row \in Config /\ row.checking = None
          /\ row.group = config[g].group /\ row.code = config[g].code
          /\ row.verified = config[g].verified
      BY <1>1 DEF Inv, TypeOK, Config, SetupStates
    <2> HIDE DEF row
    <2> QED BY <1>1, <1>2, <2>1 DEF Inv, TypeOK
  <1>4. TypeOK'
    BY <1>2, <1>3 DEF Inv, TypeOK, work
  <1>5. Drawn' /\ ReadyShown'
    BY <1>2 DEF Inv, Drawn, ReadyShown, work
  <1>6. Stamped'
    BY <1>2, <1>3 DEF Inv, Stamped
  <1>7. Grouped' /\ SetupProven'
    BY <1>2, <1>3 DEF Inv, Grouped, SetupProven
  <1> QED BY <1>4, <1>5, <1>6, <1>7 DEF Inv

LEMMA InvKick ==
    ASSUME Inv, NEW a \in Accounts, NEW gr \in Groups, Kick(a, gr)
    PROVE  Inv'
  <1>1. TypeOK'
    BY DEF Kick, Inv, TypeOK, jobs, work
  <1> QED BY <1>1, Quiet DEF Kick, jobs, work

\* A worker that answers "ready" has seen the code it was asked to see, and
\* its answer is about a job that was drawn.
LEMMA InvWork ==
    ASSUME Inv, NEW a \in Accounts, NEW shown \in BOOLEAN, Work(a, shown)
    PROVE  Inv'
  <1> DEFINE j == Head(queue[a])
             done == [queue EXCEPT ![a] = Tail(@)]
  <1>1. /\ queue[a] \in Seq(Jobs) /\ queue[a] # <<>>
        /\ UNCHANGED <<config, lease, jobs, sweep, fresh, outdated>>
        /\ shown => job[j].code # None
        /\ proved' = IF shown THEN proved \cup {job[j].code} ELSE proved
    BY DEF Work, Inv, TypeOK
  <1>2. /\ j \in Jobs /\ Tail(queue[a]) \in Seq(Jobs)
        /\ Len(Tail(queue[a])) = Len(queue[a]) - 1
        /\ 1 \in 1 .. Len(queue[a]) /\ j = queue[a][1]
        /\ \A i \in 1 .. Len(Tail(queue[a])) : Tail(queue[a])[i] = queue[a][i + 1]
    BY <1>1
  <1> HIDE DEF j
  <1>3. job[j] # None /\ job[j] \in Job
    BY <1>2 DEF Inv, TypeOK, Drawn
  <1>4. /\ done \in [Accounts -> Seq(Jobs)] /\ done[a] = Tail(queue[a])
        /\ \A b \in Accounts \ {a} : done[b] = queue[b]
    BY <1>2 DEF Inv, TypeOK
  <1> HIDE DEF done
  <1>5. ASSUME NEW b \in Accounts, NEW i \in 1 .. Len(done[b]) PROVE job[done[b][i]] # None
    <2>1. CASE b = a
      <3>1. i \in 1 .. Len(Tail(queue[a])) /\ done[b][i] = Tail(queue[a])[i]
        BY <1>4, <2>1
      <3>2. i + 1 \in 1 .. Len(queue[a]) /\ done[b][i] = queue[a][i + 1]
        <4>1. Len(queue[a]) \in Nat
          BY <1>1
        <4> QED BY <1>2, <3>1, <4>1
      <3> QED BY <3>2 DEF Inv, Drawn
    <2>2. CASE b # a
      BY <1>4, <2>2 DEF Inv, Drawn
    <2> QED BY <2>1, <2>2
  <1>6. PICK o \in Outcomes(j, shown) :
          /\ inside' = o[2]
          /\ queue' = queue \/ queue' = done
          /\ results' = results \/ results' = results \cup {<<j, o[1]>>}
          /\ again' \subseteq again \cup {a}
    BY DEF Work, j, done
  <1>7. /\ o[1] \in Verdicts /\ o[2] \subseteq Accounts \X Groups
        /\ job[j].kind = "verify" => o[1] \in {"ready", "refused"}
        /\ o[1] = "ready" => Admitted(j, shown)
    <2>1. Here(j) \in Accounts \X Groups /\ inside \subseteq Accounts \X Groups
      BY <1>3 DEF Here, Job, Inv, TypeOK
    <2> QED BY <1>6, <2>1 DEF Outcomes, Verified, Left, Verdicts
  <1>8. proved \subseteq proved' /\ proved' \subseteq Codes
    BY <1>1, <1>3 DEF Inv, TypeOK, Job
  <1>9. results' \subseteq Jobs \X Verdicts
    BY <1>2, <1>6, <1>7 DEF Inv, TypeOK
  <1>10. TypeOK'
    BY <1>1, <1>4, <1>6, <1>7, <1>8, <1>9 DEF Inv, TypeOK, jobs
  <1>11. Drawn'
    BY <1>1, <1>3, <1>5, <1>6 DEF Inv, Drawn, jobs
  <1>12. ReadyShown'
    <2>1. o[1] = "ready" /\ job[j].requireCode => job[j].code \in proved'
      BY <1>1, <1>7 DEF Admitted
    <2> QED BY <1>1, <1>6, <1>7, <1>8, <2>1 DEF Inv, ReadyShown, jobs
  <1> QED BY <1>1, <1>8, <1>10, <1>11, <1>12 DEF Inv, Stamped, Grouped, SetupProven, jobs

\* The verdict that is stored is about the code the setup has now.
LEMMA InvStoreSetup ==
    ASSUME Inv, NEW r \in results, StoreSetup(r)
    PROVE  Inv'
  <1> DEFINE j == r[1]
             g == job[j].guild
             row == [config[g] EXCEPT !.state = r[2], !.checking = None,
                        !.joined = job[j].account, !.verified = @ \/ r[2] = "ready"]
  <1>1. /\ j \in Jobs /\ r[2] \in Verdicts /\ job[j] \in Job
        /\ job[j].kind = "verify" /\ config[g].checking = j
        /\ g \in Guilds
    BY DEF StoreSetup, Awaited, Inv, TypeOK, Drawn, Job
  <1>2. /\ config' = [config EXCEPT ![g] = row]
        /\ UNCHANGED <<lease, jobs, work, sweep, fresh, inside, proved, outdated>>
    BY DEF StoreSetup
  <1>3. r[2] \in {"ready", "refused"} /\ (r[2] = "ready" /\ job[j].requireCode => job[j].code \in proved)
    BY <1>1 DEF Inv, ReadyShown
  <1>4. /\ job[j].group = config[g].group /\ job[j].code = config[g].code
        /\ job[j].requireCode \/ config[g].verified
        /\ job[j].group # None
    BY <1>1, NoneIsNothing DEF Inv, Stamped, Job
  <1>5. /\ row \in Config /\ row.checking = None
        /\ row.group = config[g].group /\ row.code = config[g].code
        /\ row.verified = (config[g].verified \/ r[2] = "ready")
    <2>1. config[g] \in Config /\ job[j].account \in Accounts /\ r[2] \in SetupStates
      BY <1>1, <1>3 DEF Inv, TypeOK, Job, SetupStates
    <2> HIDE DEF g, j
    <2> QED BY <2>1 DEF Config
  <1> HIDE DEF row, g
  <1>6. config' \in [Guilds -> Config] /\ config'[g] = row
        /\ \A h \in Guilds \ {g} : config'[h] = config[h]
    BY <1>1, <1>2, <1>5 DEF Inv, TypeOK
  <1>7. TypeOK'
    BY <1>2, <1>6 DEF Inv, TypeOK, jobs, work
  <1>8. Stamped' /\ Drawn' /\ ReadyShown'
    BY <1>2, <1>5, <1>6 DEF Inv, Stamped, Drawn, ReadyShown, jobs, work
  <1>9. Grouped'
    BY <1>4, <1>5, <1>6 DEF Inv, Grouped
  <1>10. SetupProven'
    <2>1. row.verified => row.code \in proved
      BY <1>1, <1>3, <1>4, <1>5 DEF Inv, SetupProven
    <2> QED BY <1>2, <1>6, <2>1 DEF Inv, SetupProven
  <1> QED BY <1>7, <1>8, <1>9, <1>10 DEF Inv

LEMMA InvStoreLeave ==
    ASSUME Inv, NEW r \in results, StoreLeave(r)
    PROVE  Inv'
  <1> DEFINE g == job[r[1]].guild
             row == [config[g] EXCEPT !.state = "seat_released", !.checking = None, !.joined = None]
  <1>1. g \in Guilds /\ lease[g] \in Lease
    BY DEF StoreLeave, Inv, TypeOK, Drawn, Job
  <1>2. /\ lease' = [lease EXCEPT ![g].released = TRUE]
        /\ config' = [config EXCEPT ![g] = row] \/ UNCHANGED config
        /\ UNCHANGED <<jobs, work, sweep, fresh, inside, proved, outdated>>
    BY DEF StoreLeave, MarkReleased
  <1> HIDE DEF g
  <1>3. lease' \in [Guilds -> Lease \cup {None}]
    <2>1. [lease[g] EXCEPT !.released = TRUE] \in Lease
      BY <1>1 DEF Lease
    <2> QED BY <1>1, <1>2, <2>1 DEF Inv, TypeOK
  <1>4. /\ row \in Config /\ row.checking = None
        /\ row.group = config[g].group /\ row.code = config[g].code
        /\ row.verified = config[g].verified
    BY <1>1 DEF Inv, TypeOK, Config, SetupStates
  <1> HIDE DEF row
  <1>5. /\ config' \in [Guilds -> Config]
        /\ \A h \in Guilds : \/ config'[h] = config[h]
                             \/ h = g /\ config'[h] = row
    BY <1>1, <1>2, <1>4 DEF Inv, TypeOK
  <1>6. TypeOK'
    BY <1>2, <1>3, <1>5 DEF Inv, TypeOK, jobs, work
  <1>7. Stamped' /\ Drawn' /\ ReadyShown'
    BY <1>2, <1>4, <1>5 DEF Inv, Stamped, Drawn, ReadyShown, jobs, work
  <1>8. Grouped' /\ SetupProven'
    BY <1>2, <1>4, <1>5 DEF Inv, Grouped, SetupProven
  <1> QED BY <1>6, <1>7, <1>8 DEF Inv

\* The sweep writes only to a lease that is there: one that was there when it
\* made its list, for a lease that is made stays, released or not.
Leased(g) == lease[g] # None

Listed ==
    sweep # None =>
      /\ \A s \in sweep.todo : s.leased \/ s.paid => Leased(s.guild)
      /\ sweep.asking # None => Leased(sweep.asking.guild)

LEMMA ListedKept ==
    ASSUME Inv, Listed, Inv', UNCHANGED sweep,
           \A g \in Guilds : Leased(g) => Leased(g)'
    PROVE  Listed'
  <1> SUFFICES ASSUME sweep # None
               PROVE  /\ \A s \in sweep.todo : s.leased \/ s.paid => Leased(s.guild)'
                      /\ sweep.asking # None => Leased(sweep.asking.guild)'
    BY DEF Listed, Leased
  <1>1. sweep.todo \subseteq Candidate /\ sweep.asking \in Ask \cup {None}
    BY DEF Inv, TypeOK, Sweep
  <1>2. \A s \in sweep.todo : s.guild \in Guilds
    BY <1>1 DEF Candidate
  <1>3. sweep.asking # None => sweep.asking.guild \in Guilds
    BY <1>1 DEF Ask
  <1> QED BY <1>2, <1>3 DEF Listed

SweepStep ==
    \/ SweepStart \/ SweepAsk \/ SweepEnd
    \/ sweep # None /\ \E s \in sweep.todo : SweepLook(s) \/ SweepLapsed(s)

\* Leases the sweep writes are leases, and its asks name a group.
LEMMA InvSweep ==
    ASSUME Inv, Listed, SweepStep
    PROVE  Inv'
  <1>1. CASE SweepStart
    <2>1. PICK old \in SUBSET {g \in Guilds : Unused(g)} :
            /\ lease' = [g \in Guilds |->
                 IF g \in old THEN [lease[g] EXCEPT !.released = TRUE] ELSE lease[g]]
            /\ sweep' = [asking |-> None, todo |->
                 {[guild |-> g, group |-> config[g].group, leased |-> lease[g] # None,
                   paid |-> lease[g] # None /\ lease[g].paid, joined |-> config[g].joined] :
                    g \in {h \in Guilds \ old :
                             config[h].group # None /\ (lease[h] # None => Live(h))}}]
      BY <1>1 DEF SweepStart
    <2>2. lease' \in [Guilds -> Lease \cup {None}]
      <3>1. ASSUME NEW g \in old PROVE [lease[g] EXCEPT !.released = TRUE] \in Lease
        <4>1. lease[g] \in Lease
          BY <2>1, <3>1 DEF Unused, Live, Inv, TypeOK
        <4> QED BY <4>1 DEF Lease
      <3> QED BY <2>1, <3>1 DEF Inv, TypeOK
    <2>3. \A g \in Guilds : config[g].group # None =>
            [guild |-> g, group |-> config[g].group, leased |-> lease[g] # None,
             paid |-> lease[g] # None /\ lease[g].paid, joined |-> config[g].joined] \in Candidate
      <3>1. \A g \in Guilds : lease[g] # None => lease[g].paid \in BOOLEAN
        <4> SUFFICES ASSUME NEW g \in Guilds, lease[g] # None PROVE lease[g].paid \in BOOLEAN
          OBVIOUS
        <4>1. lease[g] \in Lease
          BY DEF Inv, TypeOK
        <4> QED BY <4>1 DEF Lease
      <3> QED BY <3>1 DEF Inv, TypeOK, Config, Candidate
    <2>4. sweep' \in Sweep
      BY <2>1, <2>3 DEF Sweep
    <2>5. UNCHANGED <<config, jobs, work, fresh, inside, proved, outdated>>
      BY <1>1 DEF SweepStart
    <2>6. TypeOK'
      BY <2>2, <2>4, <2>5 DEF Inv, TypeOK, jobs, work
    <2> QED BY <2>5, <2>6, Quiet DEF jobs, work
  <1>2. ASSUME sweep # None, NEW s \in sweep.todo, SweepLook(s) PROVE Inv'
    <2>1. /\ s \in Candidate /\ sweep \in Sweep
          /\ s.leased => lease[s.guild] \in Lease
          /\ s.guild \in Guilds
      BY <1>2 DEF Inv, TypeOK, Sweep, Candidate, Listed, Leased
    <2>2. Backfill(s) \subseteq Lease
      <3>1. CASE s.leased
        BY <2>1, <3>1 DEF Backfill
      <3>2. CASE ~s.leased
        <4>1. s.joined # None => s.joined \in Accounts
          BY <2>1 DEF Candidate
        <4>2. lease[s.guild] \in Lease \cup {None}
          BY <2>1 DEF Inv, TypeOK
        <4>3. \A a \in Accounts : Reserved(lease[s.guild], a) \in Lease
          BY <4>2, ReservedIsLease
        <4>4. AccountsOf(s.guild) \subseteq Accounts
          BY DEF AccountsOf
        <4> QED BY <3>2, <4>1, <4>3, <4>4 DEF Backfill
      <3> QED BY <3>1, <3>2
    <2>3. lease' \in [Guilds -> Lease \cup {None}]
      <3>1. \A l \in Lease : [l EXCEPT !.paid = TRUE] \in Lease
        BY DEF Lease
      <3>2. \/ UNCHANGED lease
            \/ \E l \in Lease : lease' = [lease EXCEPT ![s.guild] = l]
        BY <1>2, <2>2, <3>1 DEF SweepLook
      <3> QED BY <2>1, <3>2 DEF Inv, TypeOK
    <2>4. sweep' \in Sweep
      BY <1>2, <2>1 DEF SweepLook, Passed, Sweep
    <2>5. UNCHANGED <<config, jobs, work, fresh, inside, proved, outdated>>
      BY <1>2 DEF SweepLook
    <2>6. TypeOK'
      BY <2>3, <2>4, <2>5 DEF Inv, TypeOK, jobs, work
    <2> QED BY <2>5, <2>6, Quiet DEF jobs, work
  <1>3. ASSUME NEW ask \in Ask, Leased(ask.guild), Reclaim(ask), sweep' \in Sweep,
               UNCHANGED <<config, unsent, work, fresh, inside, proved, outdated>>
        PROVE  Inv'
    <2> DEFINE record == [kind |-> "reclaim", guild |-> ask.guild, group |-> ask.group,
                          account |-> ask.account, code |-> None, requireCode |-> FALSE]
    <2>1. PICK j \in Jobs : /\ Begin(j, record)
                            /\ lease' = [lease EXCEPT ![ask.guild].release = j]
      BY <1>3 DEF Reclaim
    <2>2. record \in Job
      BY DEF Ask, Job
    <2> HIDE DEF record
    <2>3. /\ job' \in [Jobs -> Job \cup {None}] /\ outbox' \subseteq Jobs
          /\ \A k \in Jobs : job[k] # None => job'[k] = job[k]
          /\ \A k \in outbox' : job'[k] # None
      BY <2>1, <2>2, BeginDraws
    <2>4. lease' \in [Guilds -> Lease \cup {None}]
      <3>1. ask.guild \in Guilds
        BY DEF Ask
      <3>2. lease[ask.guild] \in Lease
        BY <1>3, <3>1 DEF Leased, Inv, TypeOK
      <3>3. [lease[ask.guild] EXCEPT !.release = j] \in Lease
        BY <3>2 DEF Lease
      <3> QED BY <2>1, <3>1, <3>3 DEF Inv, TypeOK
    <2>5. TypeOK'
      BY <1>3, <2>3, <2>4 DEF Inv, TypeOK, work
    <2>6. Stamped'
      <3>1. \A h \in Guilds : config[h].checking \in Jobs \cup {None}
        BY DEF Inv, TypeOK, Config
      <3> QED BY <1>3, <2>3, <3>1 DEF Inv, Stamped
    <2>7. Drawn' /\ ReadyShown'
      <3>1. \A k \in unsent' : job'[k] # None
        BY <1>3, <2>3, NoneIsNoRecord DEF Inv, TypeOK, Drawn
      <3> QED BY <1>3, <2>3, <3>1, DrawnKept
    <2> QED BY <1>3, <2>5, <2>6, <2>7 DEF Inv, Grouped, SetupProven
  <1>4. ASSUME sweep # None, NEW s \in sweep.todo, SweepLapsed(s) PROVE Inv'
    <2>1. /\ s \in Candidate /\ sweep \in Sweep /\ Leased(s.guild)
          /\ s.guild \in Guilds /\ s.group \in Groups
      BY <1>4 DEF Inv, TypeOK, Sweep, Candidate, Listed, SweepLapsed
    <2>2. PICK a \in AccountsOf(s.guild) :
            LET ask == [guild |-> s.guild, group |-> s.group, account |-> a] IN
            \/ sweep' = [Passed(s) EXCEPT !.asking = ask] /\ UNCHANGED <<lease, job, outbox>>
            \/ sweep' = Passed(s) /\ Reclaim(ask)
      BY <1>4 DEF SweepLapsed
    <2> DEFINE ask == [guild |-> s.guild, group |-> s.group, account |-> a]
    <2>3. ask \in Ask /\ ask.guild = s.guild
      BY <2>1, <2>2 DEF Ask, AccountsOf
    <2> HIDE DEF ask
    <2>4. UNCHANGED <<config, unsent, work, fresh, inside, proved, outdated>>
      BY <1>4 DEF SweepLapsed
    <2>5. Passed(s) \in Sweep /\ [Passed(s) EXCEPT !.asking = ask] \in Sweep
      BY <2>1, <2>3 DEF Passed, Sweep
    <2>6. CASE sweep' = [Passed(s) EXCEPT !.asking = ask] /\ UNCHANGED <<lease, job, outbox>>
      <3>1. TypeOK'
        BY <2>4, <2>5, <2>6 DEF Inv, TypeOK, work
      <3> QED BY <2>4, <2>6, <3>1, Quiet DEF work
    <2>7. CASE sweep' = Passed(s) /\ Reclaim(ask)
      BY <1>3, <2>1, <2>3, <2>4, <2>5, <2>7
    <2> QED BY <2>2, <2>6, <2>7 DEF ask
  <1>5. CASE SweepAsk
    <2>1. sweep # None /\ sweep \in Sweep /\ sweep.asking \in Ask /\ Leased(sweep.asking.guild)
      BY <1>5 DEF SweepAsk, Inv, TypeOK, Sweep, Listed
    <2>2. /\ Reclaim(sweep.asking) /\ sweep' = [sweep EXCEPT !.asking = None]
          /\ UNCHANGED <<config, unsent, work, fresh, inside, proved, outdated>>
      BY <1>5 DEF SweepAsk
    <2>3. sweep' \in Sweep
      BY <2>1, <2>2 DEF Sweep
    <2> QED BY <1>3, <2>1, <2>2, <2>3
  <1>6. CASE SweepEnd
    <2>1. TypeOK'
      BY <1>6 DEF SweepEnd, Inv, TypeOK, jobs, work
    <2> QED BY <1>6, <2>1, Quiet DEF SweepEnd, jobs, work
  <1> QED BY <1>1, <1>2, <1>4, <1>5, <1>6 DEF SweepStep

\* The reclaim a lease waits on was drawn for its guild, which has not checked
\* its setup since.
Current ==
    /\ \A j \in outdated : job[j] # None
    /\ \A g \in Guilds : Leased(g) /\ lease[g].release # None =>
         LET j == lease[g].release IN
         job[j] # None /\ job[j].kind = "reclaim" /\ job[j].guild = g /\ j \notin outdated

SeatInv == Inv /\ Listed /\ Current

LEMMA SeatInvInit == Init => SeatInv
  <1> SUFFICES ASSUME Init PROVE SeatInv
    OBVIOUS
  <1>1. Inv
    BY InvInit
  <1> QED BY <1>1 DEF Init, SeatInv, Listed, Current, Leased

LEMMA LeaseTyped ==
    ASSUME TypeOK
    PROVE  \A g \in Guilds : Leased(g) =>
             lease[g] \in Lease /\ lease[g].release \in Jobs \cup {None}
  BY DEF TypeOK, Leased, Lease

\* Steps that set no lease to wait on anything, and put no job out of date.
LEMMA CurrentKept ==
    ASSUME Inv, Current, UNCHANGED outdated,
           \A k \in Jobs : job[k] # None => job'[k] = job[k],
           \A g \in Guilds : Leased(g)' /\ lease'[g].release # None =>
             Leased(g) /\ lease'[g].release = lease[g].release
    PROVE  Current'
  <1>1. outdated \subseteq Jobs
    BY DEF Inv, TypeOK
  <1>2. \A g \in Guilds : Leased(g) => lease[g].release \in Jobs \cup {None}
    BY LeaseTyped DEF Inv
  <1>3. \A j \in outdated' : job'[j] # None
    BY <1>1 DEF Current
  <1> SUFFICES ASSUME NEW g \in Guilds, Leased(g)', lease'[g].release # None
               PROVE LET j == lease'[g].release IN
                     /\ job'[j] # None /\ job'[j].kind = "reclaim" /\ job'[j].guild = g
                     /\ j \notin outdated'
    BY <1>3 DEF Current
  <1>4. Leased(g) /\ lease'[g].release = lease[g].release /\ lease[g].release \in Jobs
    BY <1>2
  <1> QED BY <1>4 DEF Current

LEMMA BeginKeeps ==
    ASSUME TypeOK, NEW j \in Jobs, NEW record, Begin(j, record)
    PROVE  /\ \A k \in Jobs : job[k] # None => job'[k] = job[k]
           /\ job[j] = None /\ job'[j] = record
  BY DEF TypeOK, Begin

LEMMA CheckKeepsSeats ==
    ASSUME SeatInv, Inv', NEW g \in Guilds, Check(g)
    PROVE  Listed' /\ Current'
  <1>1. PICK a \in Assignable(g) :
          /\ lease' = [lease EXCEPT ![g] = Reserved(@, a)]
          /\ \/ UNCHANGED job
             \/ \E j \in Jobs : Begin(j, [kind |-> "verify", guild |-> g,
                                        group |-> config[g].group, account |-> a,
                                        code |-> config[g].code,
                                        requireCode |-> ~config[g].verified])
    BY DEF Check
  <1>2. a \in Accounts
    BY DEF Assignable, AccountsOf, LeastLoaded
  <1>3. \A k \in Jobs : job[k] # None => job'[k] = job[k]
    BY <1>1, BeginKeeps DEF SeatInv, Inv
  <1>4. /\ lease'[g] \in Lease /\ lease'[g].release = None
        /\ \A h \in Guilds \ {g} : lease'[h] = lease[h]
    <2>1. lease[g] \in Lease \cup {None} /\ lease \in [Guilds -> Lease \cup {None}]
      BY DEF SeatInv, Inv, TypeOK
    <2>2. Reserved(lease[g], a) \in Lease
      BY <1>2, <2>1, ReservedIsLease
    <2>3. Reserved(lease[g], a).release = None
      BY <2>1 DEF Reserved, Lease
    <2> QED BY <1>1, <2>1, <2>2, <2>3
  <1>5. outdated' = outdated \cup
          {j \in Jobs : job[j] # None /\ job[j].kind = "reclaim" /\ job[j].guild = g}
    BY DEF Check
  <1>6. Listed'
    <2>1. \A h \in Guilds : Leased(h) => Leased(h)'
      BY <1>4, NoneIsNoRecord DEF Leased
    <2> QED BY <2>1, ListedKept DEF SeatInv, Check
  <1>7. Current'
    <2>1. \A j \in outdated' : job'[j] # None
      BY <1>3, <1>5 DEF SeatInv, Current, Inv, TypeOK
    <2> SUFFICES ASSUME NEW h \in Guilds, Leased(h)', lease'[h].release # None
                 PROVE LET j == lease'[h].release IN
                       /\ job'[j] # None /\ job'[j].kind = "reclaim" /\ job'[j].guild = h
                       /\ j \notin outdated'
      BY <2>1 DEF Current
    <2>2. h # g /\ lease'[h] = lease[h]
      BY <1>4
    <2>3. Leased(h) /\ lease[h].release \in Jobs
      BY <2>2, LeaseTyped DEF Leased, SeatInv, Inv
    <2> QED BY <1>3, <1>5, <2>2, <2>3 DEF SeatInv, Current
  <1> QED BY <1>6, <1>7

\* The lease that now waits, waits on a job nobody has seen yet.
LEMMA ReclaimKeepsSeats ==
    ASSUME SeatInv, Inv', NEW ask \in Ask, Leased(ask.guild), Reclaim(ask), UNCHANGED outdated
    PROVE  Current' /\ \A g \in Guilds : Leased(g) => Leased(g)'
  <1> DEFINE record == [kind |-> "reclaim", guild |-> ask.guild, group |-> ask.group,
                        account |-> ask.account, code |-> None, requireCode |-> FALSE]
  <1>1. PICK j \in Jobs : /\ Begin(j, record)
                          /\ lease' = [lease EXCEPT ![ask.guild].release = j]
    BY DEF Reclaim
  <1>2. record.kind = "reclaim" /\ record.guild = ask.guild /\ record \in Job
    BY DEF Ask, Job
  <1> HIDE DEF record
  <1>3. /\ \A k \in Jobs : job[k] # None => job'[k] = job[k]
        /\ job[j] = None /\ job'[j] = record /\ record # None
    BY <1>1, <1>2, BeginKeeps, NoneIsNoRecord DEF SeatInv, Inv
  <1>4. /\ ask.guild \in Guilds /\ lease[ask.guild] \in Lease
        /\ lease \in [Guilds -> Lease \cup {None}]
    BY DEF Ask, SeatInv, Inv, TypeOK, Leased
  <1>5. [lease[ask.guild] EXCEPT !.release = j] \in Lease
        /\ [lease[ask.guild] EXCEPT !.release = j].release = j
    BY <1>4 DEF Lease
  <1>6. /\ lease'[ask.guild] \in Lease /\ lease'[ask.guild].release = j
        /\ \A g \in Guilds \ {ask.guild} : lease'[g] = lease[g]
    BY <1>1, <1>4, <1>5
  <1>7. j \notin outdated /\ outdated \subseteq Jobs
    BY <1>3 DEF SeatInv, Inv, TypeOK, Current
  <1>8. \A g \in Guilds : Leased(g) => Leased(g)'
    BY <1>6, NoneIsNoRecord DEF Leased
  <1>9. \A k \in outdated' : job'[k] # None
    BY <1>3, <1>7 DEF SeatInv, Current
  <1>10. ASSUME NEW g \in Guilds, Leased(g)', lease'[g].release # None
         PROVE  LET k == lease'[g].release IN
                /\ job'[k] # None /\ job'[k].kind = "reclaim" /\ job'[k].guild = g
                /\ k \notin outdated'
    <2>1. CASE g = ask.guild
      BY <1>2, <1>3, <1>6, <1>7, <2>1
    <2>2. CASE g # ask.guild
      <3>1. lease'[g] = lease[g] /\ Leased(g) /\ lease[g].release \in Jobs
        BY <1>6, <1>10, <2>2, LeaseTyped DEF Leased, SeatInv, Inv
      <3> QED BY <1>3, <1>10, <3>1 DEF SeatInv, Current
    <2> QED BY <2>1, <2>2
  <1> QED BY <1>8, <1>9, <1>10 DEF Current

\* A step that leaves the leases and the sweep alone.
LEMMA StillSeats ==
    ASSUME SeatInv, Inv', UNCHANGED <<lease, sweep, outdated>>,
           \A k \in Jobs : job[k] # None => job'[k] = job[k]
    PROVE  SeatInv'
  <1>1. Listed'
    BY ListedKept DEF SeatInv, Leased
  <1>2. Current'
    BY CurrentKept DEF SeatInv, Leased
  <1> QED BY <1>1, <1>2 DEF SeatInv

LEMMA SaveGroupKeepsSeats ==
    ASSUME SeatInv, Inv', NEW g \in Guilds, NEW gr \in Groups \cup {None}, SaveGroup(g, gr)
    PROVE  SeatInv'
  <1>1. UNCHANGED <<lease, sweep, outdated>>
    BY DEF SaveGroup
  <1>2. \A k \in Jobs : job[k] # None => job'[k] = job[k]
    <2>1. CASE config[g].verified /\ AccountsOf(g) # {}
      <3>1. PICK j \in Jobs, a \in AccountsOf(g) :
              Begin(j, [kind |-> "displaced", guild |-> g, group |-> config[g].group,
                        account |-> a, code |-> None, requireCode |-> FALSE])
        BY <2>1 DEF SaveGroup
      <3> QED BY <3>1, BeginKeeps DEF SeatInv, Inv
    <2>2. CASE ~(config[g].verified /\ AccountsOf(g) # {})
      BY <2>2 DEF SaveGroup
    <2> QED BY <2>1, <2>2
  <1> QED BY <1>1, <1>2, StillSeats

LEMMA StoreLeaveKeepsSeats ==
    ASSUME SeatInv, Inv', NEW r \in results, StoreLeave(r)
    PROVE  SeatInv'
  <1> DEFINE g == job[r[1]].guild
  <1>1. /\ lease[g] # None /\ lease' = [lease EXCEPT ![g].released = TRUE]
        /\ UNCHANGED <<job, sweep, outdated>>
    BY DEF StoreLeave, jobs
  <1>2. g \in Guilds /\ lease[g] \in Lease /\ lease \in [Guilds -> Lease \cup {None}]
    BY DEF StoreLeave, SeatInv, Inv, TypeOK, Drawn, Job
  <1> HIDE DEF g
  <1>3. /\ [lease[g] EXCEPT !.released = TRUE] \in Lease
        /\ [lease[g] EXCEPT !.released = TRUE].release = lease[g].release
    BY <1>2 DEF Lease
  <1>4. /\ lease'[g] \in Lease /\ lease'[g].release = lease[g].release
        /\ \A h \in Guilds \ {g} : lease'[h] = lease[h]
    BY <1>1, <1>2, <1>3
  <1>5. \A h \in Guilds : Leased(h) = Leased(h)' /\ lease'[h].release = lease[h].release
    BY <1>1, <1>4, NoneIsNoRecord DEF Leased
  <1>6. Listed'
    BY <1>1, <1>5, ListedKept DEF SeatInv
  <1>7. Current'
    BY <1>1, <1>5, CurrentKept DEF SeatInv
  <1> QED BY <1>6, <1>7 DEF SeatInv

LEMMA SweepStartKeepsSeats ==
    ASSUME SeatInv, Inv', SweepStart
    PROVE  SeatInv'
  <1>1. PICK old \in SUBSET {g \in Guilds : Unused(g)} :
          /\ lease' = [g \in Guilds |->
               IF g \in old THEN [lease[g] EXCEPT !.released = TRUE] ELSE lease[g]]
          /\ sweep' = [asking |-> None, todo |->
               {[guild |-> g, group |-> config[g].group, leased |-> lease[g] # None,
                 paid |-> lease[g] # None /\ lease[g].paid, joined |-> config[g].joined] :
                  g \in {h \in Guilds \ old :
                           config[h].group # None /\ (lease[h] # None => Live(h))}}]
    BY DEF SweepStart
  <1>2. ASSUME NEW h \in Guilds
        PROVE  /\ Leased(h) = Leased(h)'
               /\ Leased(h) => lease'[h].release = lease[h].release
    <2>1. CASE h \in old
      <3>1. lease[h] \in Lease /\ lease'[h] = [lease[h] EXCEPT !.released = TRUE]
        BY <1>1, <2>1 DEF Unused, Live, SeatInv, Inv, TypeOK
      <3>2. /\ [lease[h] EXCEPT !.released = TRUE] \in Lease
            /\ [lease[h] EXCEPT !.released = TRUE].release = lease[h].release
        BY <3>1 DEF Lease
      <3> QED BY <3>1, <3>2, NoneIsNoRecord DEF Leased
    <2>2. CASE h \notin old
      BY <1>1, <2>2 DEF Leased
    <2> QED BY <2>1, <2>2
  <1>3. Listed'
    <2>1. sweep'.asking = None
      BY <1>1
    <2>2. ASSUME NEW s \in sweep'.todo, s.leased \/ s.paid PROVE Leased(s.guild)'
      <3>1. PICK g \in Guilds : /\ s.guild = g
                                /\ s.leased = (lease[g] # None)
                                /\ s.paid = (lease[g] # None /\ lease[g].paid)
        BY <1>1
      <3>2. Leased(g)
        BY <2>2, <3>1 DEF Leased
      <3> QED BY <1>2, <3>1, <3>2
    <2> QED BY <2>1, <2>2 DEF Listed, Leased
  <1>4. Current'
    BY <1>2, CurrentKept DEF SeatInv, SweepStart, jobs
  <1> QED BY <1>3, <1>4 DEF SeatInv

LEMMA SweepLookKeepsSeats ==
    ASSUME SeatInv, Inv', sweep # None, NEW s \in sweep.todo, SweepLook(s)
    PROVE  SeatInv'
  <1>1. /\ sweep \in Sweep /\ s \in Candidate /\ s.guild \in Guilds
        /\ s.leased => lease[s.guild] # None
        /\ lease \in [Guilds -> Lease \cup {None}]
    BY DEF SeatInv, Inv, TypeOK, Sweep, Candidate, Listed, Leased
  <1>2. ASSUME NEW l \in Backfill(s)
        PROVE  l \in Lease /\ (l.release = None \/ l = lease[s.guild])
    <2>1. CASE s.leased
      BY <1>1, <2>1 DEF Backfill
    <2>2. CASE ~s.leased
      <3>1. s.joined # None => s.joined \in Accounts
        BY <1>1 DEF Candidate
      <3>2. PICK a \in Accounts : l = Reserved(lease[s.guild], a)
        BY <2>2, <3>1 DEF Backfill, AccountsOf
      <3>3. l \in Lease
        BY <1>1, <3>2, ReservedIsLease
      <3>4. l.release = None
        BY <1>1, <3>2 DEF Reserved, Lease
      <3> QED BY <3>3, <3>4
    <2> QED BY <2>1, <2>2
  <1>3. \/ UNCHANGED lease
        \/ \E l \in Lease : /\ l.release = None \/ (Leased(s.guild) /\ l.release = lease[s.guild].release)
                            /\ lease' = [lease EXCEPT ![s.guild] = l]
    <2>1. \A l \in Lease : /\ [l EXCEPT !.paid = TRUE] \in Lease
                           /\ [l EXCEPT !.paid = TRUE].release = l.release
      BY DEF Lease
    <2>2. \A l \in Backfill(s) : l = lease[s.guild] => Leased(s.guild)
      BY <1>2, NoneIsNoRecord DEF Leased
    <2>3. CASE UNCHANGED lease
      BY <2>3
    <2>4. ASSUME NEW l \in Backfill(s),
                 \/ lease' = [lease EXCEPT ![s.guild] = l]
                 \/ lease' = [lease EXCEPT ![s.guild] = [l EXCEPT !.paid = TRUE]]
          PROVE  <1>3
      BY <1>2, <2>1, <2>2, <2>4
    <2> QED BY <2>3, <2>4 DEF SweepLook
  <1>4. \A h \in Guilds : /\ Leased(h) => Leased(h)'
                          /\ Leased(h)' /\ lease'[h].release # None =>
                               Leased(h) /\ lease'[h].release = lease[h].release
    BY <1>1, <1>3, NoneIsNoRecord DEF Leased
  <1>5. Listed'
    <2>1. /\ sweep'.todo \subseteq sweep.todo /\ sweep'.asking = sweep.asking
      BY <1>1 DEF SweepLook, Passed, Sweep
    <2>2. \A t \in sweep.todo : t.guild \in Guilds
      BY <1>1 DEF Sweep, Candidate
    <2>3. sweep'.asking = None
      BY <2>1 DEF SweepLook, Turn, Between
    <2> QED BY <1>4, <2>1, <2>2, <2>3 DEF SeatInv, Listed
  <1>6. Current'
    BY <1>4, CurrentKept DEF SeatInv, SweepLook, jobs
  <1> QED BY <1>5, <1>6 DEF SeatInv

LEMMA SweepLapsedKeepsSeats ==
    ASSUME SeatInv, Inv', sweep # None, NEW s \in sweep.todo, SweepLapsed(s)
    PROVE  SeatInv'
  <1>1. /\ sweep \in Sweep /\ s \in Candidate /\ s.guild \in Guilds /\ s.group \in Groups
        /\ Leased(s.guild) /\ sweep.asking = None /\ UNCHANGED outdated
    BY DEF SeatInv, Inv, TypeOK, Sweep, Candidate, Listed, SweepLapsed, Turn, Between
  <1>2. PICK a \in AccountsOf(s.guild) :
          LET ask == [guild |-> s.guild, group |-> s.group, account |-> a] IN
          \/ sweep' = [Passed(s) EXCEPT !.asking = ask] /\ UNCHANGED <<lease, job, outbox>>
          \/ sweep' = Passed(s) /\ Reclaim(ask)
    BY DEF SweepLapsed
  <1> DEFINE ask == [guild |-> s.guild, group |-> s.group, account |-> a]
  <1>3. ask \in Ask /\ ask.guild = s.guild
    BY <1>1, <1>2 DEF Ask, AccountsOf
  <1> HIDE DEF ask
  <1>4. /\ Passed(s).todo \subseteq sweep.todo /\ Passed(s).asking = None
        /\ [Passed(s) EXCEPT !.asking = ask].todo \subseteq sweep.todo
        /\ [Passed(s) EXCEPT !.asking = ask].asking = ask
    BY <1>1 DEF Passed, Sweep
  <1>5. \A t \in sweep.todo : t.guild \in Guilds
    BY <1>1 DEF Sweep, Candidate
  <1>6. CASE sweep' = [Passed(s) EXCEPT !.asking = ask] /\ UNCHANGED <<lease, job, outbox>>
    <2>1. Listed'
      BY <1>1, <1>3, <1>4, <1>6 DEF SeatInv, Listed, Leased
    <2>2. Current'
      BY <1>1, <1>6, CurrentKept DEF SeatInv, Leased
    <2> QED BY <2>1, <2>2 DEF SeatInv
  <1>7. CASE sweep' = Passed(s) /\ Reclaim(ask)
    <2>1. Current' /\ \A g \in Guilds : Leased(g) => Leased(g)'
      BY <1>1, <1>3, <1>7, ReclaimKeepsSeats
    <2>2. Listed'
      BY <1>4, <1>5, <1>7, <2>1 DEF SeatInv, Listed
    <2> QED BY <2>1, <2>2 DEF SeatInv
  <1> QED BY <1>2, <1>6, <1>7 DEF ask

LEMMA SweepAskKeepsSeats ==
    ASSUME SeatInv, Inv', SweepAsk
    PROVE  SeatInv'
  <1>1. /\ sweep \in Sweep /\ sweep.asking \in Ask /\ Leased(sweep.asking.guild)
        /\ Reclaim(sweep.asking) /\ UNCHANGED outdated
        /\ sweep' = [sweep EXCEPT !.asking = None]
    BY DEF SweepAsk, SeatInv, Inv, TypeOK, Sweep, Listed
  <1>2. Current' /\ \A g \in Guilds : Leased(g) => Leased(g)'
    BY <1>1, ReclaimKeepsSeats
  <1>3. sweep'.todo = sweep.todo /\ sweep'.asking = None
        /\ \A t \in sweep.todo : t.guild \in Guilds
    BY <1>1 DEF Sweep, Candidate
  <1>4. Listed'
    BY <1>2, <1>3 DEF SweepAsk, SeatInv, Listed
  <1> QED BY <1>2, <1>4 DEF SeatInv

LEMMA SeatInvNext == SeatInv /\ [Next]_vars => SeatInv'
  <1> SUFFICES ASSUME SeatInv, [Next]_vars PROVE SeatInv'
    OBVIOUS
  <1>1. Inv /\ Listed /\ results \subseteq Jobs \X Verdicts
    BY DEF SeatInv, Inv, TypeOK
  <1>2. ASSUME NEW g \in Guilds, Check(g) PROVE SeatInv'
    BY <1>1, <1>2, InvCheck, CheckKeepsSeats DEF SeatInv
  <1>3. ASSUME NEW g \in Guilds, NEW gr \in Groups \cup {None}, SaveGroup(g, gr)
        PROVE  SeatInv'
    BY <1>1, <1>3, InvSaveGroup, SaveGroupKeepsSeats
  <1>4. ASSUME NEW a \in Accounts, NEW gr \in Groups, Kick(a, gr) PROVE SeatInv'
    BY <1>1, <1>4, InvKick, StillSeats DEF Kick, jobs
  <1>5. ASSUME NEW j \in Jobs, Publish(j) PROVE SeatInv'
    BY <1>1, <1>5, InvPublish, StillSeats DEF Publish
  <1>6. ASSUME NEW j \in Jobs, AbandonCheck(j) PROVE SeatInv'
    BY <1>1, <1>6, InvAbandonCheck, StillSeats DEF AbandonCheck
  <1>7. ASSUME NEW a \in Accounts, NEW shown \in BOOLEAN, Work(a, shown) PROVE SeatInv'
    BY <1>1, <1>7, InvWork, StillSeats DEF Work, jobs
  <1>8. ASSUME NEW r \in results, StoreSetup(r) PROVE SeatInv'
    BY <1>1, <1>8, InvStoreSetup, StillSeats DEF StoreSetup, jobs
  <1>9. ASSUME NEW r \in results, StoreLeave(r) PROVE SeatInv'
    BY <1>1, <1>9, InvStoreLeave, StoreLeaveKeepsSeats
  <1>10. ASSUME sweep # None, NEW s \in sweep.todo, SweepLook(s) PROVE SeatInv'
    <2>1. SweepStep
      BY <1>10 DEF SweepStep
    <2> QED BY <1>1, <1>10, <2>1, InvSweep, SweepLookKeepsSeats
  <1>11. ASSUME sweep # None, NEW s \in sweep.todo, SweepLapsed(s) PROVE SeatInv'
    <2>1. SweepStep
      BY <1>11 DEF SweepStep
    <2> QED BY <1>1, <1>11, <2>1, InvSweep, SweepLapsedKeepsSeats
  <1>12. CASE SweepStart
    <2>1. Inv'
      <3>1. SweepStep
        BY <1>12 DEF SweepStep
      <3> QED BY <1>1, <3>1, InvSweep
    <2> QED BY <1>12, <2>1, SweepStartKeepsSeats
  <1>13. CASE SweepAsk
    <2>1. Inv'
      <3>1. SweepStep
        BY <1>13 DEF SweepStep
      <3> QED BY <1>1, <3>1, InvSweep
    <2> QED BY <1>13, <2>1, SweepAskKeepsSeats
  <1>14. CASE SweepEnd \/ Crash
    <2>1. /\ UNCHANGED <<config, lease, job, work, fresh, inside, proved, outdated>>
          /\ outbox' \subseteq outbox /\ unsent' \subseteq unsent /\ sweep' = None
      BY <1>14 DEF SweepEnd, Crash, jobs
    <2>2. TypeOK'
      BY <2>1 DEF SeatInv, Inv, TypeOK, work
    <2>3. Inv'
      BY <1>1, <2>1, <2>2, Quiet DEF work
    <2> QED BY <2>1, <2>3 DEF SeatInv, Listed, Current, Leased
  <1>15. CASE UNCHANGED vars
    <2>1. TypeOK'
      BY <1>15 DEF vars, SeatInv, Inv, TypeOK, jobs, work
    <2>2. Inv'
      BY <1>1, <1>15, <2>1, Quiet DEF vars, jobs, work
    <2> QED BY <1>15, <2>2, StillSeats DEF vars, jobs
  <1> QED
    BY <1>2, <1>3, <1>4, <1>5, <1>6, <1>7, <1>8, <1>9, <1>10, <1>11, <1>12, <1>13,
       <1>14, <1>15 DEF Next

LEMMA SeatInvAlways == Spec => []SeatInv
  BY SeatInvInit, SeatInvNext, PTL DEF Spec

(***************************************************************************)
(* Every variable keeps its type: no setup is left without a state.         *)
(***************************************************************************)
THEOREM SeatsTypeCorrect == Spec => []TypeOK
  BY SeatInvAlways, PTL DEF SeatInv, Inv

(***************************************************************************)
(* For every set of servers that claim and give up the same groups, however *)
(* the answers are delayed or repeated: a setup counts as verified only by  *)
(* the code that was drawn for this server and this group.                  *)
(***************************************************************************)
THEOREM SetupIsProven == Spec => []SetupProven
  BY SeatInvAlways, PTL DEF SeatInv, Inv

\* Only two steps free a seat, and the answer to a leave frees the seat of the
\* guild it was asked for.
Takes(g) ==
    \/ SweepStart /\ ~config[g].verified
    \/ \E r \in results : /\ job[r[1]].kind = "reclaim" /\ job[r[1]].guild = g
                          /\ r[2] = "left" /\ r[1] \notin outdated

LEMMA ReclaimFreesNothing ==
    ASSUME TypeOK, NEW ask \in Ask, Leased(ask.guild), Reclaim(ask), NEW g \in Guilds
    PROVE  ~Freed(g)
  <1>1. PICK j \in Jobs : lease' = [lease EXCEPT ![ask.guild].release = j]
    BY DEF Reclaim
  <1>2. ask.guild \in Guilds /\ lease[ask.guild] \in Lease
        /\ lease \in [Guilds -> Lease \cup {None}]
    BY DEF TypeOK, Leased, Ask
  <1>3. [lease[ask.guild] EXCEPT !.release = j].released = lease[ask.guild].released
    BY <1>2 DEF Lease
  <1> QED BY <1>1, <1>2, <1>3 DEF Freed, Live

LEMMA ReservedIsLive ==
    ASSUME NEW l \in Lease \cup {None}, NEW a \in Accounts
    PROVE  ~Reserved(l, a).released
  BY NoneIsNoRecord DEF Reserved, Lease

LEMMA FreedIsTaken ==
    ASSUME SeatInv, [Next]_vars, NEW g \in Guilds, Freed(g)
    PROVE  Takes(g)
  <1>1. /\ lease \in [Guilds -> Lease \cup {None}] /\ TypeOK /\ Listed /\ lease[g] \in Lease
        /\ lease[g] # None /\ ~lease[g].released /\ lease'[g].released
    BY DEF SeatInv, Inv, TypeOK, Freed, Live
  <1>2. ASSUME UNCHANGED lease PROVE FALSE
    BY <1>1, <1>2
  <1>3. ASSUME NEW h \in Guilds, Check(h) PROVE FALSE
    <2>1. PICK a \in Accounts : lease' = [lease EXCEPT ![h] = Reserved(@, a)]
      BY <1>3 DEF Check, Assignable, AccountsOf, LeastLoaded
    <2>2. ~Reserved(lease[h], a).released
      BY <1>1, ReservedIsLive
    <2> QED BY <1>1, <2>1, <2>2
  <1>4. ASSUME NEW r \in results, StoreLeave(r) PROVE Takes(g)
    <2> DEFINE h == job[r[1]].guild
    <2>1. /\ job[r[1]].kind = "reclaim" /\ r[2] = "left"
          /\ lease[h] # None /\ lease[h].release = r[1]
          /\ lease' = [lease EXCEPT ![h].released = TRUE]
      BY <1>4 DEF StoreLeave
    <2>2. r[1] \in Jobs /\ h \in Guilds
      BY <1>4 DEF StoreLeave, SeatInv, Inv, TypeOK, Drawn, Job
    <2>3. h = g
      <3> HIDE DEF h
      <3> QED BY <1>1, <2>1, <2>2
    <2>4. r[1] \notin outdated
      BY <2>1, <2>2, NoneIsNothing DEF SeatInv, Current, Leased
    <2> QED BY <2>1, <2>3, <2>4 DEF Takes
  <1>5. ASSUME SweepStart PROVE Takes(g)
    <2>1. PICK old \in SUBSET {h \in Guilds : Unused(h)} :
            lease' = [h \in Guilds |->
              IF h \in old THEN [lease[h] EXCEPT !.released = TRUE] ELSE lease[h]]
      BY <1>5 DEF SweepStart
    <2>2. g \in old
      BY <1>1, <2>1
    <2> QED BY <1>5, <2>2 DEF Takes, Unused
  <1>6. ASSUME sweep # None, NEW s \in sweep.todo, SweepLook(s) PROVE FALSE
    <2>1. s \in Candidate /\ s.guild \in Guilds
      BY <1>1, <1>6 DEF TypeOK, Sweep, Candidate
    <2>2. ASSUME NEW l \in Backfill(s) PROVE l = lease[s.guild] \/ (l \in Lease /\ ~l.released)
      <3>1. CASE s.leased
        BY <2>2, <3>1 DEF Backfill
      <3>2. CASE ~s.leased
        <4>1. s.joined # None => s.joined \in Accounts
          BY <2>1 DEF Candidate
        <4>2. PICK a \in Accounts : l = Reserved(lease[s.guild], a)
          BY <2>2, <3>2, <4>1 DEF Backfill, AccountsOf
        <4> QED BY <1>1, <2>1, <4>2, ReservedIsLease, ReservedIsLive
      <3> QED BY <3>1, <3>2
    <2>3. \A l \in Lease : [l EXCEPT !.paid = TRUE].released = l.released
      BY DEF Lease
    <2>4. PICK l \in Backfill(s) : \/ lease' = [lease EXCEPT ![s.guild] = l]
                                   \/ lease' = [lease EXCEPT ![s.guild] = [l EXCEPT !.paid = TRUE]]
      BY <1>2, <1>6 DEF SweepLook
    <2>5. g = s.guild
      BY <1>1, <2>1, <2>4
    <2>6. l \in Lease /\ ~l.released
      BY <1>1, <2>2, <2>5
    <2> QED BY <1>1, <2>3, <2>4, <2>5, <2>6
  <1>7. ASSUME sweep # None, NEW s \in sweep.todo, SweepLapsed(s) PROVE FALSE
    <2>1. s \in Candidate /\ s.guild \in Guilds /\ s.group \in Groups /\ Leased(s.guild)
      BY <1>1, <1>7 DEF TypeOK, Sweep, Candidate, SweepLapsed, Listed
    <2>2. PICK a \in Accounts :
            Reclaim([guild |-> s.guild, group |-> s.group, account |-> a])
      BY <1>2, <1>7 DEF SweepLapsed, AccountsOf
    <2>3. [guild |-> s.guild, group |-> s.group, account |-> a] \in Ask
      BY <2>1 DEF Ask
    <2>4. [guild |-> s.guild, group |-> s.group, account |-> a].guild = s.guild
      OBVIOUS
    <2> QED BY <1>1, <2>1, <2>2, <2>3, <2>4, ReclaimFreesNothing
  <1>8. ASSUME SweepAsk PROVE FALSE
    <2>1. sweep.asking \in Ask /\ Leased(sweep.asking.guild) /\ Reclaim(sweep.asking)
      BY <1>1, <1>8 DEF SweepAsk, TypeOK, Sweep, Listed
    <2> QED BY <1>1, <2>1, ReclaimFreesNothing
  <1>9. ASSUME \/ \E h \in Guilds, gr \in Groups \cup {None} : SaveGroup(h, gr)
               \/ \E a \in Accounts, gr \in Groups : Kick(a, gr)
               \/ \E j \in Jobs : Publish(j) \/ AbandonCheck(j)
               \/ \E a \in Accounts, shown \in BOOLEAN : Work(a, shown)
               \/ \E r \in results : StoreSetup(r)
               \/ SweepEnd \/ Crash \/ UNCHANGED vars
        PROVE  UNCHANGED lease
    BY <1>9 DEF SaveGroup, Kick, Publish, AbandonCheck, Work, StoreSetup, SweepEnd, Crash, vars
  <1> QED BY <1>2, <1>3, <1>4, <1>5, <1>6, <1>7, <1>8, <1>9 DEF Next

(***************************************************************************)
(* No leave that was asked before a server checked its setup again ever     *)
(* frees the server's seat (handle_seat_release_result).                    *)
(***************************************************************************)
THEOREM ReclaimsAreCurrent == Spec => ReclaimIsCurrent
  <1>1. SeatInv /\ [Next]_vars => [\A g \in Guilds : Freed(g) => Takes(g)]_lease
    BY FreedIsTaken
  <1>2. QED
    BY <1>1, SeatInvAlways, PTL DEF Spec, ReclaimIsCurrent, Takes

(***************************************************************************)
(* The cap.  A seat that is given back is given on, so the servers an       *)
(* account serves may change in every step that writes a lease; only a      *)
(* setup check may add one.  The sweep writes a lease for a server without  *)
(* one when it finds an account that joined a group for it; that there is   *)
(* no such server is what the rows keep.                                    *)
(***************************************************************************)
Held(a) == {g \in Guilds \ Legacy : Live(g) /\ lease[g].account = a}

\* A server some account has joined a group for, or is to check the group of,
\* has a lease, released though it may be.
Rooted ==
    /\ \A g \in Guilds \ Legacy : config[g].joined # None => Leased(g)
    /\ \A j \in Jobs : job[j] # None /\ job[j].kind = "verify" => Leased(job[j].guild)
    /\ sweep # None =>
         \A s \in sweep.todo : s.guild \in Legacy \/ s.leased \/ s.joined = None

Capped == \A a \in Accounts : Cardinality(Held(a)) <= Seats

CapInv == SeatInv /\ Capped /\ Rooted

LEMMA CapInvInit == Init => CapInv
  <1> SUFFICES ASSUME Init PROVE CapInv
    OBVIOUS
  <1>1. Capped
    <2> SUFFICES ASSUME NEW a \in Accounts PROVE Cardinality(Held(a)) <= Seats
      BY DEF Capped
    <2>1. Held(a) = {}
      BY DEF Held, Live, Init
    <2> QED BY <2>1, FS_EmptySet, SeatsAssumption
  <1> QED BY <1>1, SeatInvInit DEF CapInv, Rooted, Init, Blank

\* What gives no server a seat or another account keeps to the cap.
LEMMA CapKept ==
    ASSUME Capped,
           \A g \in Guilds \ Legacy :
             Live(g)' => Live(g) /\ lease'[g].account = lease[g].account
    PROVE  Capped'
  <1> SUFFICES ASSUME NEW a \in Accounts PROVE Cardinality(Held(a)') <= Seats
    BY DEF Capped
  <1>1. Held(a)' \subseteq Held(a)
    BY DEF Held
  <1>2. IsFiniteSet(Held(a))
    BY SeatsAssumption, FS_Subset DEF Held
  <1>3. Cardinality(Held(a)') <= Cardinality(Held(a))
    BY <1>1, <1>2, FS_Subset
  <1>4. Cardinality(Held(a)) \in Nat /\ Cardinality(Held(a)') \in Nat
    BY <1>1, <1>2, FS_Subset, FS_CardinalityType
  <1>5. Cardinality(Held(a)) <= Seats
    BY DEF Capped
  <1> QED BY <1>3, <1>4, <1>5, SeatsAssumption

\* What leaves the leases where they are, joins no group and draws no check
\* keeps the rows rooted.
LEMMA RootedKept ==
    ASSUME SeatInv, Rooted,
           \A g \in Guilds : Leased(g) => Leased(g)',
           \A g \in Guilds : config'[g].joined \in {config[g].joined, None},
           \A j \in Jobs : \/ job'[j] = job[j]
                           \/ job'[j].kind # "verify"
                           \/ lease'[job'[j].guild] # None,
           sweep' # None => sweep # None /\ sweep'.todo \subseteq sweep.todo
    PROVE  Rooted'
  <1>1. \A j \in Jobs : job[j] # None => job[j].guild \in Guilds
    BY DEF SeatInv, Inv, TypeOK, Job
  <1>2. \A j \in Jobs : job'[j] # None /\ job'[j].kind = "verify" => lease'[job'[j].guild] # None
    BY <1>1 DEF Rooted, Leased
  <1>3. \A g \in Guilds \ Legacy : config'[g].joined # None => Leased(g)'
    BY DEF Rooted
  <1>4. sweep' # None =>
          \A s \in sweep'.todo : s.guild \in Legacy \/ s.leased \/ s.joined = None
    BY DEF Rooted
  <1> QED BY <1>2, <1>3, <1>4 DEF Rooted, Leased

\* A lease that is kept stays with its account.
LEMMA ReservedKeeps ==
    ASSUME NEW l \in Lease, NEW a \in Accounts, ~l.released, l.account = a
    PROVE  Reserved(l, a).account = l.account
  BY NoneIsNoRecord DEF Reserved, Lease

LEMMA ReservedIsHere ==
    ASSUME NEW l \in Lease \cup {None}, NEW a \in Accounts
    PROVE  Reserved(l, a).account = a
  BY NoneIsNoRecord DEF Reserved, Lease

\* A setup check keeps the seat a server has, or takes one where one is left.
LEMMA CheckKeepsCap ==
    ASSUME CapInv, Several, NEW g \in Guilds, Check(g)
    PROVE  Capped'
  <1>1. PICK a \in Assignable(g) : lease' = [lease EXCEPT ![g] = Reserved(@, a)]
    BY DEF Check
  <1>2. a \in Accounts
    BY DEF Assignable, AccountsOf, LeastLoaded
  <1>3. /\ lease \in [Guilds -> Lease \cup {None}]
        /\ Reserved(lease[g], a) \in Lease /\ Reserved(lease[g], a).account = a
    BY <1>2, ReservedIsLease, ReservedIsHere DEF CapInv, SeatInv, Inv, TypeOK
  <1>4. /\ lease'[g] = Reserved(lease[g], a)
        /\ \A h \in Guilds \ {g} : lease'[h] = lease[h]
    BY <1>1, <1>3
  <1>5. CASE AccountsOf(g) # {}
    <2>1. Live(g) /\ lease[g].account = a
      BY <1>5 DEF Assignable, AccountsOf, Several
    <2> QED BY <1>3, <1>4, <2>1, CapKept DEF CapInv, Live
  <1>6. CASE AccountsOf(g) = {}
    <2>2. IsFiniteSet(Held(a))
      BY SeatsAssumption, FS_Subset DEF Held
    <2>1. Cardinality(Held(a)) < Seats
      <3> DEFINE all == {h \in Guilds : Live(h) /\ lease[h].account = a}
      <3>1. Cardinality(all) < Seats
        BY <1>6 DEF Assignable, LeastLoaded, Usage
      <3>2. IsFiniteSet(all) /\ Held(a) \subseteq all
        BY SeatsAssumption, FS_Subset DEF Held
      <3> HIDE DEF all
      <3>3. Cardinality(Held(a)) <= Cardinality(all)
        BY <3>2, FS_Subset
      <3>4. Cardinality(Held(a)) \in Nat /\ Cardinality(all) \in Nat
        BY <2>2, <3>2, FS_CardinalityType
      <3> QED BY <3>1, <3>3, <3>4, SeatsAssumption
    <2>3. \A b \in Accounts : Held(b)' \subseteq IF b = a THEN Held(b) \cup {g} ELSE Held(b)
      BY <1>3, <1>4 DEF Held, Live
    <2> SUFFICES ASSUME NEW b \in Accounts PROVE Cardinality(Held(b)') <= Seats
      BY DEF Capped
    <2>4. CASE b = a
      <3>1. IsFiniteSet(Held(a) \cup {g}) /\ Cardinality(Held(a) \cup {g}) <= Seats
        <4>1. Cardinality(Held(a)) \in Nat
          BY <2>2, FS_CardinalityType
        <4>2. /\ IsFiniteSet(Held(a) \cup {g})
              /\ \/ Cardinality(Held(a) \cup {g}) = Cardinality(Held(a))
                 \/ Cardinality(Held(a) \cup {g}) = Cardinality(Held(a)) + 1
          BY <2>2, FS_AddElement
        <4> QED BY <2>1, <4>1, <4>2, SeatsAssumption
      <3>2. Cardinality(Held(b)') <= Cardinality(Held(a) \cup {g}) /\ IsFiniteSet(Held(b)')
        BY <2>3, <2>4, <3>1, FS_Subset
      <3> QED BY <3>1, <3>2, FS_CardinalityType, SeatsAssumption
    <2>5. CASE b # a
      <3>1. IsFiniteSet(Held(b)) /\ Cardinality(Held(b)) <= Seats
        BY SeatsAssumption, FS_Subset DEF CapInv, Capped, Held
      <3>2. Cardinality(Held(b)') <= Cardinality(Held(b)) /\ IsFiniteSet(Held(b)')
        BY <2>3, <2>5, <3>1, FS_Subset
      <3> QED BY <3>1, <3>2, FS_CardinalityType, SeatsAssumption
    <2> QED BY <2>4, <2>5
  <1> QED BY <1>5, <1>6

LEMMA CheckKeepsRooted ==
    ASSUME CapInv, NEW g \in Guilds, Check(g)
    PROVE  Rooted'
  <1>1. PICK a \in Accounts : lease' = [lease EXCEPT ![g] = Reserved(@, a)]
    BY DEF Check, Assignable, AccountsOf, LeastLoaded
  <1>2. /\ lease \in [Guilds -> Lease \cup {None}] /\ Reserved(lease[g], a) \in Lease
        /\ config \in [Guilds -> Config]
    BY ReservedIsLease DEF CapInv, SeatInv, Inv, TypeOK
  <1>3. \A h \in Guilds : h = g \/ Leased(h) => Leased(h)'
    BY <1>1, <1>2, NoneIsNoRecord DEF Leased
  <1>4. \A h \in Guilds : config'[h].joined = config[h].joined
    BY <1>2 DEF Check, Config
  <1>5. \A j \in Jobs : job'[j] = job[j] \/ lease'[job'[j].guild] # None
    <2>1. \/ UNCHANGED job
          \/ \E j \in Jobs, record \in [kind : {"verify"}, guild : {g},
                  group : Groups \cup {None}, account : Accounts,
                  code : Codes \cup {None}, requireCode : BOOLEAN] : Begin(j, record)
      BY <1>2 DEF Check, Config, Assignable, AccountsOf, LeastLoaded
    <2>2. ASSUME NEW j \in Jobs, NEW record, record.guild = g, Begin(j, record),
                 NEW k \in Jobs
          PROVE  job'[k] = job[k] \/ job'[k].guild = g
      BY <2>2 DEF Begin, CapInv, SeatInv, Inv, TypeOK
    <2> QED BY <1>3, <2>1, <2>2 DEF Leased
  <1>6. UNCHANGED sweep
    BY DEF Check
  <1> QED BY <1>3, <1>4, <1>5, <1>6, RootedKept DEF CapInv

LEMMA ReclaimKeepsCap ==
    ASSUME CapInv, NEW ask \in Ask, Leased(ask.guild), Reclaim(ask), UNCHANGED config,
           sweep' # None /\ sweep # None /\ sweep'.todo \subseteq sweep.todo
    PROVE  Capped' /\ Rooted'
  <1> DEFINE record == [kind |-> "reclaim", guild |-> ask.guild, group |-> ask.group,
                        account |-> ask.account, code |-> None, requireCode |-> FALSE]
  <1>1. PICK j \in Jobs : /\ Begin(j, record)
                          /\ lease' = [lease EXCEPT ![ask.guild].release = j]
    BY DEF Reclaim
  <1>2. record.kind = "reclaim"
    OBVIOUS
  <1> HIDE DEF record
  <1>3. /\ ask.guild \in Guilds /\ lease[ask.guild] \in Lease
        /\ lease \in [Guilds -> Lease \cup {None}] /\ job \in [Jobs -> Job \cup {None}]
    BY DEF CapInv, SeatInv, Inv, TypeOK, Ask, Leased
  <1>4. /\ [lease[ask.guild] EXCEPT !.release = j] \in Lease
        /\ [lease[ask.guild] EXCEPT !.release = j].account = lease[ask.guild].account
        /\ [lease[ask.guild] EXCEPT !.release = j].released = lease[ask.guild].released
    BY <1>3 DEF Lease
  <1>5. \A g \in Guilds :
          /\ Live(g)' => Live(g) /\ lease'[g].account = lease[g].account
          /\ Leased(g) => Leased(g)'
    BY <1>1, <1>3, <1>4, NoneIsNoRecord DEF Live, Leased
  <1>6. \A k \in Jobs : job'[k] = job[k] \/ job'[k].kind # "verify"
    BY <1>1, <1>2, <1>3 DEF Begin
  <1>7. \A g \in Guilds : config'[g].joined \in {config[g].joined, None}
    OBVIOUS
  <1>8. Capped'
    BY <1>5, CapKept DEF CapInv
  <1>9. Rooted'
    BY <1>5, <1>6, <1>7, RootedKept DEF CapInv
  <1> QED BY <1>8, <1>9

LEMMA SweepStartKeepsCap ==
    ASSUME CapInv, SweepStart
    PROVE  Capped' /\ Rooted'
  <1>1. PICK old \in SUBSET {g \in Guilds : Unused(g)} :
          /\ lease' = [g \in Guilds |->
               IF g \in old THEN [lease[g] EXCEPT !.released = TRUE] ELSE lease[g]]
          /\ sweep' = [asking |-> None, todo |->
               {[guild |-> g, group |-> config[g].group, leased |-> lease[g] # None,
                 paid |-> lease[g] # None /\ lease[g].paid, joined |-> config[g].joined] :
                  g \in {h \in Guilds \ old :
                           config[h].group # None /\ (lease[h] # None => Live(h))}}]
    BY DEF SweepStart
  <1>2. ASSUME NEW h \in Guilds
        PROVE  /\ Live(h)' => Live(h) /\ lease'[h].account = lease[h].account
               /\ Leased(h) => Leased(h)'
    <2>1. CASE h \in old
      <3>1. lease[h] \in Lease /\ lease'[h] = [lease[h] EXCEPT !.released = TRUE]
        BY <1>1, <2>1 DEF Unused, Live, CapInv, SeatInv, Inv, TypeOK
      <3>2. /\ [lease[h] EXCEPT !.released = TRUE] \in Lease
            /\ [lease[h] EXCEPT !.released = TRUE].released
        BY <3>1 DEF Lease
      <3> QED BY <3>1, <3>2, NoneIsNoRecord DEF Leased, Live
    <2>2. CASE h \notin old
      BY <1>1, <2>2 DEF Leased, Live
    <2> QED BY <2>1, <2>2
  <1>3. Capped'
    BY <1>2, CapKept DEF CapInv
  <1>4. \A s \in sweep'.todo : s.guild \in Legacy \/ s.leased \/ s.joined = None
    <2> SUFFICES ASSUME NEW s \in sweep'.todo, s.joined # None, s.guild \notin Legacy
                 PROVE  s.leased
      OBVIOUS
    <2>1. PICK g \in Guilds : /\ s.guild = g /\ s.leased = (lease[g] # None)
                              /\ s.joined = config[g].joined
      BY <1>1
    <2> QED BY <2>1 DEF CapInv, Rooted, Leased
  <1>5. UNCHANGED <<config, job>>
    BY DEF SweepStart, jobs
  <1>6. \A j \in Jobs : job[j] # None => job[j].guild \in Guilds
    BY DEF CapInv, SeatInv, Inv, TypeOK, Job
  <1>7. Rooted'
    BY <1>2, <1>4, <1>5, <1>6 DEF CapInv, Rooted, Leased
  <1> QED BY <1>3, <1>7

\* The sweep writes back the lease that is there, or fills in for a server that
\* has come by a live one since the pass began, or that is older than leases.
LEMMA SweepLookKeepsCap ==
    ASSUME CapInv, Several, sweep # None, NEW s \in sweep.todo, SweepLook(s)
    PROVE  Capped' /\ Rooted'
  <1>1. /\ sweep \in Sweep /\ s \in Candidate /\ s.guild \in Guilds
        /\ s.leased => Leased(s.guild)
        /\ s.guild \in Legacy \/ s.leased \/ s.joined = None
        /\ lease \in [Guilds -> Lease \cup {None}]
    BY DEF CapInv, Rooted, SeatInv, Inv, TypeOK, Sweep, Candidate, Listed
  <1>2. ASSUME NEW l \in Backfill(s)
        PROVE  /\ l \in Lease
               /\ s.guild \in Legacy \/
                    /\ Leased(s.guild)
                    /\ ~l.released => Live(s.guild) /\ l.account = lease[s.guild].account
    <2>1. CASE s.leased
      BY <1>1, <1>2, <2>1 DEF Backfill, Leased, Live
    <2>2. CASE ~s.leased
      <3>1. s.joined # None => s.joined \in Accounts
        BY <1>1 DEF Candidate
      <3>2. PICK a \in Accounts : /\ l = Reserved(lease[s.guild], a)
                                  /\ s.joined = None => a \in AccountsOf(s.guild)
        BY <1>2, <2>2, <3>1 DEF Backfill, AccountsOf
      <3>3. l \in Lease
        BY <1>1, <3>2, ReservedIsLease
      <3>4. CASE s.guild \in Legacy
        BY <3>3, <3>4
      <3>5. CASE s.guild \notin Legacy
        <4>1. Live(s.guild) /\ lease[s.guild].account = a
          BY <1>1, <2>2, <3>2, <3>5 DEF AccountsOf, Several
        <4>2. lease[s.guild] \in Lease /\ ~lease[s.guild].released /\ Leased(s.guild)
          BY <1>1, <4>1 DEF Live, Leased
        <4> QED BY <3>2, <3>3, <4>1, <4>2, ReservedKeeps
      <3> QED BY <3>4, <3>5
    <2> QED BY <2>1, <2>2
  <1>3. \/ UNCHANGED lease
        \/ \E l \in Lease :
             /\ s.guild \in Legacy \/
                  (~l.released => Live(s.guild) /\ l.account = lease[s.guild].account)
             /\ lease' = [lease EXCEPT ![s.guild] = l]
    <2>1. \A l \in Lease : /\ [l EXCEPT !.paid = TRUE] \in Lease
                           /\ [l EXCEPT !.paid = TRUE].released = l.released
                           /\ [l EXCEPT !.paid = TRUE].account = l.account
      BY DEF Lease
    <2>2. CASE UNCHANGED lease
      BY <2>2
    <2>3. ASSUME NEW l \in Backfill(s),
                 \/ lease' = [lease EXCEPT ![s.guild] = l]
                 \/ lease' = [lease EXCEPT ![s.guild] = [l EXCEPT !.paid = TRUE]]
          PROVE  <1>3
      BY <1>2, <2>1, <2>3
    <2> QED BY <2>2, <2>3 DEF SweepLook
  <1>4. /\ \A h \in Guilds \ Legacy :
             Live(h)' => Live(h) /\ lease'[h].account = lease[h].account
        /\ \A h \in Guilds : Leased(h) => Leased(h)'
    BY <1>1, <1>3, NoneIsNoRecord DEF Live, Leased
  <1>5. Capped'
    BY <1>4, CapKept DEF CapInv
  <1>6. UNCHANGED <<config, job>> /\ sweep'.todo \subseteq sweep.todo
    BY <1>1 DEF SweepLook, jobs, Passed, Sweep
  <1>7. Rooted'
    BY <1>4, <1>6, RootedKept DEF CapInv
  <1> QED BY <1>5, <1>7

LEMMA SweepLapsedKeepsCap ==
    ASSUME CapInv, sweep # None, NEW s \in sweep.todo, SweepLapsed(s)
    PROVE  Capped' /\ Rooted'
  <1>1. /\ sweep \in Sweep /\ s \in Candidate /\ s.guild \in Guilds /\ s.group \in Groups
        /\ Leased(s.guild) /\ UNCHANGED config
    BY DEF CapInv, SeatInv, Inv, TypeOK, Sweep, Candidate, Listed, SweepLapsed
  <1>2. PICK a \in AccountsOf(s.guild) :
          LET ask == [guild |-> s.guild, group |-> s.group, account |-> a] IN
          \/ sweep' = [Passed(s) EXCEPT !.asking = ask] /\ UNCHANGED <<lease, job, outbox>>
          \/ sweep' = Passed(s) /\ Reclaim(ask)
    BY DEF SweepLapsed
  <1> DEFINE ask == [guild |-> s.guild, group |-> s.group, account |-> a]
  <1>3. ask \in Ask /\ ask.guild = s.guild
    BY <1>1, <1>2 DEF Ask, AccountsOf
  <1> HIDE DEF ask
  <1>4. /\ Passed(s).todo \subseteq sweep.todo
        /\ [Passed(s) EXCEPT !.asking = ask].todo \subseteq sweep.todo
        /\ Passed(s) # None
    <2>1. Passed(s) \in Sweep
      BY <1>1 DEF Passed, Sweep
    <2> QED BY <1>1, <2>1, NoneIsNoRecord DEF Passed, Sweep
  <1>5. CASE sweep' = [Passed(s) EXCEPT !.asking = ask] /\ UNCHANGED <<lease, job, outbox>>
    <2>1. Capped'
      BY <1>5, CapKept DEF CapInv, Live
    <2>2. Rooted'
      BY <1>1, <1>4, <1>5, RootedKept DEF CapInv, Leased
    <2> QED BY <2>1, <2>2
  <1>6. CASE sweep' = Passed(s) /\ Reclaim(ask)
    BY <1>1, <1>3, <1>4, <1>6, ReclaimKeepsCap
  <1> QED BY <1>2, <1>5, <1>6 DEF ask

LEMMA SweepAskKeepsCap ==
    ASSUME CapInv, SweepAsk
    PROVE  Capped' /\ Rooted'
  <1>1. /\ sweep \in Sweep /\ sweep.asking \in Ask /\ Leased(sweep.asking.guild)
        /\ Reclaim(sweep.asking) /\ sweep # None /\ UNCHANGED config
        /\ sweep' = [sweep EXCEPT !.asking = None]
    BY DEF SweepAsk, CapInv, SeatInv, Inv, TypeOK, Sweep, Listed
  <1>2. sweep'.todo \subseteq sweep.todo /\ sweep' \in Sweep
    BY <1>1 DEF Sweep
  <1> QED BY <1>1, <1>2, ReclaimKeepsCap, NoneIsNoRecord

LEMMA StoreLeaveKeepsCap ==
    ASSUME CapInv, NEW r \in results, StoreLeave(r)
    PROVE  Capped' /\ Rooted'
  <1> DEFINE g == job[r[1]].guild
  <1>1. /\ lease[g] # None /\ lease' = [lease EXCEPT ![g].released = TRUE]
        /\ UNCHANGED <<job, sweep>>
    BY DEF StoreLeave, jobs
  <1>2. /\ g \in Guilds /\ lease[g] \in Lease /\ lease \in [Guilds -> Lease \cup {None}]
        /\ config \in [Guilds -> Config]
    BY DEF StoreLeave, CapInv, SeatInv, Inv, TypeOK, Drawn, Job
  <1>3. \A h \in Guilds : config'[h].joined \in {config[h].joined, None}
    <2>1. /\ [config[g] EXCEPT !.state = "seat_released", !.checking = None,
                              !.joined = None].joined = None
          /\ \/ UNCHANGED config
             \/ config' = [config EXCEPT ![g] = [config[g] EXCEPT !.state = "seat_released",
                                                  !.checking = None, !.joined = None]]
      BY <1>2 DEF StoreLeave, MarkReleased, Config
    <2> QED BY <1>2, <2>1
  <1> HIDE DEF g
  <1>4. /\ [lease[g] EXCEPT !.released = TRUE] \in Lease
        /\ [lease[g] EXCEPT !.released = TRUE].released
    BY <1>2 DEF Lease
  <1>5. \A h \in Guilds : /\ Live(h)' => Live(h) /\ lease'[h].account = lease[h].account
                          /\ Leased(h) => Leased(h)'
    BY <1>1, <1>2, <1>4, NoneIsNoRecord DEF Live, Leased
  <1>6. Capped'
    BY <1>5, CapKept DEF CapInv
  <1>7. Rooted'
    BY <1>1, <1>3, <1>5, RootedKept DEF CapInv
  <1> QED BY <1>6, <1>7

LEMMA SaveGroupKeepsRooted ==
    ASSUME CapInv, NEW g \in Guilds, NEW gr \in Groups \cup {None}, SaveGroup(g, gr)
    PROVE  Rooted'
  <1>1. \A h \in Guilds : config'[h].joined \in {config[h].joined, None}
    <2>1. \E row : row.joined = None /\ config' = [config EXCEPT ![g] = row]
      <3>1. Blank.joined = None /\ \A c : [Blank EXCEPT !.group = gr, !.code = c].joined = None
        BY DEF Blank
      <3>2. \/ config' = [config EXCEPT ![g] = Blank]
            \/ \E c : config' = [config EXCEPT ![g] = [Blank EXCEPT !.group = gr, !.code = c]]
        BY DEF SaveGroup
      <3> QED BY <3>1, <3>2
    <2>2. config \in [Guilds -> Config]
      BY DEF CapInv, SeatInv, Inv, TypeOK
    <2> QED BY <2>1, <2>2
  <1>2. \A j \in Jobs : job'[j] = job[j] \/ job'[j].kind # "verify"
    <2>1. \/ UNCHANGED job
          \/ \E j \in Jobs : \E record : record.kind = "displaced" /\ Begin(j, record)
      <3>1. \A a : [kind |-> "displaced", guild |-> g, group |-> config[g].group,
                    account |-> a, code |-> None, requireCode |-> FALSE].kind = "displaced"
        OBVIOUS
      <3> QED BY <3>1 DEF SaveGroup
    <2>2. job \in [Jobs -> Job \cup {None}]
      BY DEF CapInv, SeatInv, Inv, TypeOK
    <2> QED BY <2>1, <2>2 DEF Begin
  <1>3. UNCHANGED <<lease, sweep>>
    BY DEF SaveGroup
  <1> QED BY <1>1, <1>2, <1>3, RootedKept DEF CapInv, Leased

\* The account whose answer is stored was sent there with the server's lease.
LEMMA StoreSetupKeepsRooted ==
    ASSUME CapInv, NEW r \in results, StoreSetup(r)
    PROVE  Rooted'
  <1> DEFINE g == job[r[1]].guild
  <1>1. r[1] \in Jobs /\ job[r[1]] # None /\ job[r[1]].kind = "verify" /\ Leased(g)
    BY DEF StoreSetup, CapInv, Rooted, SeatInv, Inv, TypeOK, Drawn
  <1>2. \A h \in Guilds : h # g => config'[h].joined = config[h].joined
    BY DEF StoreSetup, CapInv, SeatInv, Inv, TypeOK
  <1>3. UNCHANGED <<lease, job, sweep>>
    BY DEF StoreSetup, jobs
  <1> HIDE DEF g
  <1> QED BY <1>1, <1>2, <1>3 DEF CapInv, Rooted, Leased

LEMMA CapInvNext ==
    ASSUME Several, CapInv, [Next]_vars
    PROVE  CapInv'
  <1>1. SeatInv'
    BY SeatInvNext DEF CapInv
  <1> SUFFICES Capped' /\ Rooted'
    BY <1>1 DEF CapInv
  <1>2. ASSUME NEW g \in Guilds, Check(g) PROVE Capped' /\ Rooted'
    BY <1>2, CheckKeepsCap, CheckKeepsRooted
  <1>3. ASSUME NEW g \in Guilds, NEW gr \in Groups \cup {None}, SaveGroup(g, gr)
        PROVE  Capped' /\ Rooted'
    BY <1>3, SaveGroupKeepsRooted, CapKept DEF SaveGroup, CapInv, Live
  <1>4. ASSUME UNCHANGED <<lease, job, sweep>>,
               \A g \in Guilds : config'[g].joined = config[g].joined
        PROVE  Capped' /\ Rooted'
    <2>1. Capped'
      BY <1>4, CapKept DEF CapInv, Live
    <2>2. Rooted'
      BY <1>4, RootedKept DEF CapInv, Leased
    <2> QED BY <2>1, <2>2
  <1>5. ASSUME NEW a \in Accounts, NEW gr \in Groups, Kick(a, gr) PROVE Capped' /\ Rooted'
    BY <1>4, <1>5 DEF Kick, jobs
  <1>6. ASSUME NEW j \in Jobs, Publish(j) \/ AbandonCheck(j) PROVE Capped' /\ Rooted'
    <2>1. UNCHANGED <<lease, job, sweep>>
      BY <1>6 DEF Publish, AbandonCheck
    <2>2. \A g \in Guilds : config'[g].joined = config[g].joined
      <3>1. config \in [Guilds -> Config]
        BY DEF CapInv, SeatInv, Inv, TypeOK
      <3>2. \/ UNCHANGED config
            \/ \E h : config' = [config EXCEPT ![h].state = "worker_unreachable",
                                             ![h].checking = None]
        BY <1>6 DEF Publish, AbandonCheck
      <3>3. ASSUME NEW h, config' = [config EXCEPT ![h].state = "worker_unreachable",
                                                   ![h].checking = None]
            PROVE  \A g \in Guilds : config'[g].joined = config[g].joined
        BY <3>1, <3>3 DEF Config
      <3> QED BY <3>2, <3>3
    <2> QED BY <1>4, <2>1, <2>2
  <1>7. ASSUME NEW a \in Accounts, NEW shown \in BOOLEAN, Work(a, shown)
        PROVE  Capped' /\ Rooted'
    BY <1>4, <1>7 DEF Work, jobs
  <1>8. ASSUME NEW r \in results, StoreSetup(r) PROVE Capped' /\ Rooted'
    BY <1>8, StoreSetupKeepsRooted, CapKept DEF StoreSetup, CapInv, Live
  <1>9. ASSUME NEW r \in results, StoreLeave(r) PROVE Capped' /\ Rooted'
    BY <1>9, StoreLeaveKeepsCap
  <1>10. ASSUME sweep # None, NEW s \in sweep.todo, SweepLook(s) PROVE Capped' /\ Rooted'
    BY <1>10, SweepLookKeepsCap
  <1>11. ASSUME sweep # None, NEW s \in sweep.todo, SweepLapsed(s) PROVE Capped' /\ Rooted'
    BY <1>11, SweepLapsedKeepsCap
  <1>12. CASE SweepStart
    BY <1>12, SweepStartKeepsCap
  <1>13. CASE SweepAsk
    BY <1>13, SweepAskKeepsCap
  <1>14. CASE SweepEnd \/ Crash
    <2>1. UNCHANGED <<config, lease, job>> /\ sweep' = None
      BY <1>14 DEF SweepEnd, Crash, jobs
    <2>2. Capped'
      BY <2>1, CapKept DEF CapInv, Live
    <2>3. Rooted'
      BY <2>1, RootedKept DEF CapInv, Leased
    <2> QED BY <2>2, <2>3
  <1>15. CASE UNCHANGED vars
    BY <1>4, <1>15 DEF vars, jobs
  <1> QED
    BY <1>2, <1>3, <1>5, <1>6, <1>7, <1>8, <1>9, <1>10, <1>11, <1>12, <1>13, <1>14,
       <1>15 DEF Next

(***************************************************************************)
(* Wherever there are several accounts, none of them ever serves more       *)
(* servers than it has seats, those older than the leases aside, through    *)
(* reclaims, late answers, crashes and the sweep's own writes               *)
(* (assign_invite_account, backfill_seat_lease).                            *)
(***************************************************************************)
THEOREM CapIsHeld == Spec => []CapHeld
  <1>1. CASE Several
    <2>1. CapInv /\ [Next]_vars => CapInv'
      BY <1>1, CapInvNext
    <2>2. CapInv => CapHeld
      BY DEF CapInv, Capped, Held, CapHeld
    <2> QED BY CapInvInit, <2>1, <2>2, PTL DEF Spec
  <1>2. CASE ~Several
    <2>1. CapHeld
      BY <1>2 DEF CapHeld
    <2> QED BY <2>1, PTL
  <1> QED BY <1>1, <1>2
=============================================================================
