----------------------- MODULE DashboardSettingsProofs -----------------------
(***************************************************************************)
(* The dashboard's saves, for any number of them and any batches: what a    *)
(* save lists as changed is what it has changed, and otherwise is about a   *)
(* failure it swallowed, through every await and every transaction that     *)
(* fails.                                                                   *)
(***************************************************************************)
EXTENDS DashboardSettings, TLAPS

\* The list a coroutine builds has all it has changed, and beside it only
\* fields of which it swallowed a failure.
ListedIsMoved ==
    \A s \in Saves :
      /\ Of(s, moved) \subseteq save[s].changed
      /\ \A c \in save[s].changed :
           /\ c[1] = s
           /\ c \notin moved => <<s, c[2]>> \in swallowed

\* What a save has changed and audited, by how far it has come.
Progress ==
    \A s \in Saves :
      /\ save[s].stage \in {"idle", "plan"} => save[s].changed = {}
      /\ save[s].stage \in {"idle", "plan", "releasing"} => Of(s, audit) = {}

Inv == TypeOK /\ ListedIsMoved /\ Progress /\ AuditTellsAll

LEMMA InvInit == Init => Inv
  <1> SUFFICES ASSUME Init PROVE Inv
    OBVIOUS
  <1>1. TypeOK
    BY DEF Init, TypeOK, Stages
  <1>2. \A s \in Saves : Of(s, moved) = {} /\ Of(s, audit) = {} /\ save[s].changed = {}
    BY DEF Init, Of
  <1> QED BY <1>1, <1>2 DEF Inv, ListedIsMoved, Progress, AuditTellsAll

LEMMA BatchesAreFields == \A b \in Submissions \cup Batches : b # {} /\ b \subseteq Fields
  <1>1. \A b \in Submissions : b # {} /\ b \subseteq Fields
    BY DEF Submissions, Filled, VerificationForm, MemberForm, LoggingForm, PanelForm,
           GroupForm, Fields, ServerRow, LogChannel, Branding, Group
  <1>2. \A b \in Batches : b # {} /\ b \subseteq Fields
    BY SettingsAssumption
  <1> QED BY <1>1, <1>2

LEMMA TouchedAreFields ==
    ASSUME NEW s, NEW first \in 1 .. 4, NEW last \in 0 .. 4
    PROVE  Touched(s, first, last) \subseteq Fields
  <1>1. \A k \in first .. last : Tables[k] \subseteq Fields
    <2> SUFFICES ASSUME NEW k \in first .. last PROVE Tables[k] \subseteq Fields
      OBVIOUS
    <2>1. k = 1 \/ k = 2 \/ k = 3 \/ k = 4
      OBVIOUS
    <2>2. Tables[1] = Branding /\ Tables[2] = LogChannel /\ Tables[3] = Group
          /\ Tables[4] = ServerRow
      BY DEF Tables
    <2> QED BY <2>1, <2>2 DEF Fields
  <1> QED BY <1>1 DEF Touched

\* A coroutine that has committed the changes new.
Record(was, stage, new) ==
    [stage |-> stage, batch |-> was.batch, to |-> was.to, changed |-> was.changed \cup new]

Moves(s, stage, new, listed) ==
    /\ moved' = moved \cup new
    /\ save' = [save EXCEPT ![s] = Record(save[s], stage, listed)]
    /\ \A c \in listed : c[1] = s
    /\ \A c \in new : c[1] = s /\ c[2] \in save[s].batch /\ c[4] = save[s].to
    /\ new \subseteq listed
    /\ swallowed \subseteq swallowed'
    /\ \A c \in listed \ new : <<s, c[2]>> \in swallowed'

\* What is committed beside the list: a save changes what was submitted, lists
\* it, and leaves every other save alone.
LEMMA CommitMoves ==
    ASSUME Inv, NEW s \in Saves, save[s].stage \in {"plan", "releasing"},
           NEW first \in 1 .. 4, NEW last \in 0 .. 4,
           NEW stage \in Stages \ {"idle"}, Commit(s, first, last, stage)
    PROVE  /\ value' \in [Fields -> BOOLEAN] /\ setUp' \in BOOLEAN
           /\ swallowed' \subseteq Saves \X Fields
           /\ \E new, listed \in SUBSET Changes : Moves(s, stage, new, listed)
  <1> DEFINE fs == Touched(s, first, last)
  <1>0. fs \subseteq Fields
    BY TouchedAreFields
  <1>1. /\ save[s].batch \subseteq Fields /\ save[s].to \in BOOLEAN
        /\ value \in [Fields -> BOOLEAN] /\ setUp \in BOOLEAN
        /\ swallowed \subseteq Saves \X Fields
    BY DEF Inv, TypeOK
  <1>2. PICK lost \in BOOLEAN, blind \in BOOLEAN :
          /\ value' = [f \in Fields |->
                IF f \in fs \ Unwritten(s, lost, blind) THEN Merged(s, f) ELSE value[f]]
          /\ moved' = moved \cup
               {<<s, f, value[f], value'[f]>> : f \in {x \in Fields : value'[x] # value[x]}}
          /\ save' = [save EXCEPT ![s] =
                        [stage |-> stage, batch |-> @.batch, to |-> @.to,
                         changed |-> @.changed \cup Listed(s, fs, blind)]]
          /\ swallowed' = swallowed \cup {<<s, f>> : f \in fs \cap
               ((IF lost THEN Branding ELSE {}) \cup (IF blind THEN LogChannel ELSE {}))}
          /\ UNCHANGED setUp
    BY DEF Commit
  <1> DEFINE new == {<<s, f, value[f], value'[f]>> : f \in {x \in Fields : value'[x] # value[x]}}
             listed == Listed(s, fs, blind)
  <1>3. \A f \in Fields : Merged(s, f) \in BOOLEAN /\ Seen(f, blind) \in BOOLEAN
    BY <1>1 DEF Merged, Seen
  <1>4. value' \in [Fields -> BOOLEAN]
    BY <1>1, <1>2, <1>3
  <1>5. \A f \in Fields : value'[f] # value[f] =>
          /\ f \in (fs \cap save[s].batch) \ Unwritten(s, lost, blind)
          /\ value'[f] = save[s].to
    BY <1>2 DEF Merged
  <1>6. \A f \in Fields : value'[f] # value[f] =>
          Seen(f, blind) = value[f] /\ Seen(f, blind) # save[s].to
    <2> SUFFICES ASSUME NEW f \in Fields, value'[f] # value[f]
                 PROVE  Seen(f, blind) = value[f] /\ Seen(f, blind) # save[s].to
      OBVIOUS
    <2>1. f \notin Unwritten(s, lost, blind) /\ value'[f] = save[s].to
      BY <1>5
    <2>2. CASE f \in LogChannel
      <3>1. Seen(f, blind) # save[s].to
        BY <2>1, <2>2 DEF Unwritten
      <3>2. save[s].to \in BOOLEAN /\ value[f] \in BOOLEAN
        BY <1>1
      <3>3. blind => save[s].to = TRUE
        BY <2>2, <3>1, <3>2 DEF Seen
      <3>4. value[f] # save[s].to
        BY <2>1
      <3> QED BY <2>2, <3>1, <3>2, <3>3, <3>4 DEF Seen
    <2>3. CASE f \notin LogChannel
      BY <2>1, <2>3 DEF Seen
    <2> QED BY <2>2, <2>3
  <1>7. \A f \in Fields : value'[f] # value[f] =>
          <<s, f, value[f], value'[f]>> \in listed
    BY <1>5, <1>6 DEF Listed
  <1>8. \A f \in fs \cap save[s].batch :
          Seen(f, blind) # save[s].to /\ <<s, f, Seen(f, blind), save[s].to>> \notin new
            => <<s, f>> \in swallowed'
    <2> SUFFICES ASSUME NEW f \in fs \cap save[s].batch, Seen(f, blind) # save[s].to,
                        <<s, f, Seen(f, blind), save[s].to>> \notin new
                 PROVE  <<s, f>> \in swallowed'
      OBVIOUS
    <2>0. f \in Fields
      BY <1>0
    <2>1. CASE lost /\ f \in Branding
      BY <1>2, <2>1
    <2>2. CASE blind /\ f \in LogChannel
      BY <1>2, <2>2
    <2>3. CASE ~(lost /\ f \in Branding) /\ ~(blind /\ f \in LogChannel)
      <3>1. Seen(f, blind) = value[f]
        BY <2>3 DEF Seen
      <3>2. f \notin Unwritten(s, lost, blind)
        BY <2>3 DEF Unwritten
      <3>3. value'[f] = save[s].to
        BY <1>2, <2>0, <3>2 DEF Merged
      <3> QED BY <2>0, <3>1, <3>3
    <2> QED BY <2>1, <2>2, <2>3
  <1>9. new \in SUBSET Changes /\ \A c \in new : c[1] = s /\ c[2] \in save[s].batch
                                                 /\ c[4] = save[s].to
    BY <1>1, <1>4, <1>5 DEF Changes
  <1>10. listed \in SUBSET Changes /\ \A c \in listed : c[1] = s
    BY <1>0, <1>1, <1>3 DEF Listed, Changes
  <1>11. new \subseteq listed
    BY <1>7
  <1>12. \A c \in listed \ new : <<s, c[2]>> \in swallowed'
    BY <1>8 DEF Listed
  <1>13. swallowed \subseteq swallowed' /\ swallowed' \subseteq Saves \X Fields
    BY <1>0, <1>1, <1>2
  <1>14. moved' = moved \cup new /\ save' = [save EXCEPT ![s] = Record(save[s], stage, listed)]
    BY <1>2 DEF Record
  <1>15. setUp' \in BOOLEAN
    BY <1>1, <1>2
  <1> HIDE DEF new, listed
  <1>16. Moves(s, stage, new, listed)
    BY <1>9, <1>10, <1>11, <1>12, <1>13, <1>14 DEF Moves
  <1> QED BY <1>4, <1>9, <1>10, <1>13, <1>15, <1>16

\* A commit keeps the invariant whether or not it goes on to the audit.
LEMMA CommitKeepsInv ==
    ASSUME Inv, NEW s \in Saves, save[s].stage \in {"plan", "releasing"},
           NEW first \in 1 .. 4, NEW last \in 0 .. 4,
           NEW stage \in Stages \ {"idle"}, Commit(s, first, last, stage),
           \/ /\ stage \in {"releasing", "rejected", "unavailable"}
              /\ audit' = audit
           \/ /\ stage = "restyling"
              /\ audit' = audit \cup save'[s].changed
    PROVE  Inv'
  <1>1. /\ value' \in [Fields -> BOOLEAN] /\ setUp' \in BOOLEAN
        /\ swallowed' \subseteq Saves \X Fields
        /\ \E new, listed \in SUBSET Changes : Moves(s, stage, new, listed)
    BY CommitMoves
  <1>0. PICK new \in SUBSET Changes, listed \in SUBSET Changes :
          /\ moved' = moved \cup new
          /\ save' = [save EXCEPT ![s] = Record(save[s], stage, listed)]
          /\ \A c \in listed : c[1] = s
          /\ \A c \in new : c[1] = s
          /\ new \subseteq listed
          /\ swallowed \subseteq swallowed'
          /\ \A c \in listed \ new : <<s, c[2]>> \in swallowed'
    BY <1>1 DEF Moves
  <1>2. /\ save'[s].stage = stage /\ save'[s].batch = save[s].batch
        /\ save'[s].changed = save[s].changed \cup listed
        /\ \A t \in Saves \ {s} : save'[t] = save[t]
    BY <1>0 DEF Inv, TypeOK, Record
  <1>3. save' \in [Saves -> [stage : Stages, batch : SUBSET Fields,
                             to : BOOLEAN, changed : SUBSET Changes]]
    <2>1. save \in [Saves -> [stage : Stages, batch : SUBSET Fields,
                             to : BOOLEAN, changed : SUBSET Changes]]
      BY DEF Inv, TypeOK
    <2>2. Record(save[s], stage, listed) \in [stage : Stages, batch : SUBSET Fields,
                             to : BOOLEAN, changed : SUBSET Changes]
      BY <2>1 DEF Record
    <2> QED BY <1>0, <2>1, <2>2
  <1>4. moved' \subseteq Changes /\ audit' \subseteq Changes
    BY <1>0, <1>3 DEF Inv, TypeOK
  <1>5. TypeOK'
    BY <1>1, <1>2, <1>3, <1>4 DEF Inv, TypeOK
  <1>6. Of(s, moved') = Of(s, moved) \cup new
    BY <1>0 DEF Of
  <1>7. \A t \in Saves \ {s} : Of(t, moved') = Of(t, moved)
    BY <1>0 DEF Of
  <1>8. ListedIsMoved'
    <2>1. ASSUME NEW t \in Saves \ {s}
          PROVE  /\ Of(t, moved') \subseteq save'[t].changed
                 /\ \A c \in save'[t].changed :
                      c[1] = t /\ (c \notin moved' => <<t, c[2]>> \in swallowed')
      BY <1>0, <1>2, <1>7 DEF Inv, ListedIsMoved
    <2>2. Of(s, moved') \subseteq save'[s].changed
      BY <1>0, <1>2, <1>6 DEF Inv, ListedIsMoved
    <2>3. ASSUME NEW c \in save'[s].changed
          PROVE  c[1] = s /\ (c \notin moved' => <<s, c[2]>> \in swallowed')
      BY <1>0, <1>2, <2>3 DEF Inv, ListedIsMoved
    <2> QED BY <2>1, <2>2, <2>3 DEF ListedIsMoved
  <1>9. Of(s, audit) = {}
    BY DEF Inv, Progress
  <1>10. \A t \in Saves \ {s} : Of(t, audit') = Of(t, audit)
    <2>1. \A c \in save'[s].changed : c[1] = s
      BY <1>8 DEF ListedIsMoved
    <2> QED BY <2>1 DEF Of
  <1>11. ASSUME NEW t \in Saves \ {s}
         PROVE  /\ \/ Of(t, audit') # {}
                   \/ save'[t].stage \in {"restyling", "saved", "stale"}
                   => Of(t, moved') \subseteq audit'
                /\ \A c \in Of(t, audit') \ moved' : <<t, c[2]>> \in swallowed'
                /\ save'[t].stage \in {"idle", "plan"} => save'[t].changed = {}
                /\ save'[t].stage \in {"idle", "plan", "releasing"} => Of(t, audit') = {}
    <2>1. Of(t, moved) \subseteq audit => Of(t, moved') \subseteq audit'
      BY <1>7
    <2> QED BY <1>0, <1>2, <1>10, <2>1 DEF Inv, Progress, AuditTellsAll
  <1>12. CASE stage # "restyling"
    <2>1. Of(s, audit') = {} /\ stage \notin {"idle", "plan", "restyling", "saved", "stale"}
      BY <1>9, <1>12
    <2> QED BY <1>2, <1>5, <1>8, <1>11, <2>1 DEF Inv, Progress, AuditTellsAll
  <1>13. CASE stage = "restyling"
    <2>1. Of(s, audit') = save'[s].changed
      <3>1. audit' = audit \cup save'[s].changed
        BY <1>13
      <3>2. \A c \in save'[s].changed : c[1] = s
        BY <1>8 DEF ListedIsMoved
      <3>3. \A c \in audit : c[1] # s
        BY <1>9 DEF Of
      <3> QED BY <3>1, <3>2, <3>3 DEF Of
    <2>2. /\ Of(s, moved') \subseteq audit'
          /\ \A c \in Of(s, audit') \ moved' : <<s, c[2]>> \in swallowed'
      BY <1>8, <2>1 DEF ListedIsMoved, Of
    <2> QED BY <1>2, <1>5, <1>8, <1>11, <1>13, <2>2 DEF Inv, Progress, AuditTellsAll
  <1> QED BY <1>12, <1>13

-----------------------------------------------------------------------------
\* Every way a turn of a save can go is a commit.
LEMMA TurnIsCommit ==
    ASSUME NEW s \in Saves, NEW first \in {1, 4},
           Fails(s, first) \/ NotSetUp(s, first) \/ Completes(s, first)
    PROVE  \E last \in 0 .. 4, stage \in {"rejected", "unavailable", "restyling"} :
             /\ Commit(s, first, last, stage)
             /\ \/ stage # "restyling" /\ audit' = audit
                \/ stage = "restyling" /\ audit' = audit \cup save'[s].changed
  <1>1. CASE Fails(s, first)
    <2>1. PICK last \in first - 1 .. 4 : Commit(s, first, last, "unavailable")
      BY <1>1 DEF Fails
    <2>2. last \in 0 .. 4
      OBVIOUS
    <2> QED BY <1>1, <2>1, <2>2 DEF Fails
  <1>2. CASE NotSetUp(s, first)
    BY <1>2 DEF NotSetUp
  <1>3. CASE Completes(s, first)
    BY <1>3 DEF Completes
  <1> QED BY <1>1, <1>2, <1>3

LEMMA ApplyKeepsInv ==
    ASSUME Inv, NEW s \in Saves, Apply(s) \/ Resume(s)
    PROVE  Inv'
  <1>0. save[s].stage \in {"plan", "releasing"}
    BY DEF Apply, Resume
  <1>1. CASE Displaces(s) /\ Commit(s, 1, 3, "releasing") /\ UNCHANGED audit
    BY <1>0, <1>1, CommitKeepsInv DEF Stages
  <1>2. CASE \E first \in {1, 4} :
               Fails(s, first) \/ NotSetUp(s, first) \/ Completes(s, first)
    <2>1. PICK first \in {1, 4} :
            Fails(s, first) \/ NotSetUp(s, first) \/ Completes(s, first)
      BY <1>2
    <2>2. PICK last \in 0 .. 4, stage \in {"rejected", "unavailable", "restyling"} :
             /\ Commit(s, first, last, stage)
             /\ \/ stage # "restyling" /\ audit' = audit
                \/ stage = "restyling" /\ audit' = audit \cup save'[s].changed
      BY <2>1, TurnIsCommit
    <2>3. first \in 1 .. 4 /\ stage \in Stages \ {"idle"}
      BY DEF Stages
    <2> QED BY <1>0, <2>2, <2>3, CommitKeepsInv
  <1> QED BY <1>1, <1>2 DEF Apply, Resume

\* The other steps of a save only move its stage on.
LEMMA StageKeepsInv ==
    ASSUME Inv, NEW s \in Saves, Refuse(s) \/ Answer(s)
    PROVE  Inv'
  <1>1. PICK stage \in {"rejected", "unavailable", "saved", "stale"} :
          /\ save' = [save EXCEPT ![s].stage = stage]
          /\ \/ save[s].stage = "plan" /\ stage \in {"rejected", "unavailable"}
             \/ save[s].stage = "restyling" /\ stage # "rejected"
    BY DEF Refuse, Answer, Goes
  <1>2. UNCHANGED <<value, setUp, audit, moved, swallowed>>
    BY DEF Refuse, Answer, Elsewhere
  <1>3. /\ save'[s].stage = stage /\ save'[s].batch = save[s].batch
        /\ save'[s].changed = save[s].changed
        /\ \A t \in Saves \ {s} : save'[t] = save[t]
    BY <1>1 DEF Inv, TypeOK
  <1>4. TypeOK'
    BY <1>1, <1>2, <1>3 DEF Inv, TypeOK, Stages
  <1>5. \A t \in Saves : Of(t, moved') = Of(t, moved) /\ Of(t, audit') = Of(t, audit)
    BY <1>2
  <1>6. ListedIsMoved'
    BY <1>2, <1>3, <1>5 DEF Inv, ListedIsMoved
  <1>7. Progress'
    BY <1>1, <1>2, <1>3, <1>5 DEF Inv, Progress
  <1>8. AuditTellsAll'
    BY <1>1, <1>2, <1>3, <1>5 DEF Inv, AuditTellsAll, Progress
  <1> QED BY <1>4, <1>6, <1>7, <1>8 DEF Inv

LEMMA RequestKeepsInv ==
    ASSUME Inv, NEW s \in Saves, Request(s)
    PROVE  Inv'
  <1>1. PICK b \in Submissions \cup Batches, to \in BOOLEAN :
          save' = [save EXCEPT ![s] =
                     [stage |-> "plan", batch |-> b, to |-> to, changed |-> {}]]
    BY DEF Request
  <1>2. save[s].stage = "idle" /\ UNCHANGED <<value, setUp, audit, moved, swallowed>>
    BY DEF Request, Elsewhere
  <1>3. b # {} /\ b \subseteq Fields
    BY BatchesAreFields
  <1>4. /\ save'[s] = [stage |-> "plan", batch |-> b, to |-> to, changed |-> {}]
        /\ \A t \in Saves \ {s} : save'[t] = save[t]
    BY <1>1 DEF Inv, TypeOK
  <1>5. TypeOK'
    BY <1>1, <1>2, <1>3, <1>4 DEF Inv, TypeOK, Stages
  <1>6. \A t \in Saves : Of(t, moved') = Of(t, moved) /\ Of(t, audit') = Of(t, audit)
    BY <1>2
  <1>7. Of(s, moved) = {} /\ Of(s, audit) = {}
    BY <1>2 DEF Inv, Progress, ListedIsMoved
  <1>8. ListedIsMoved' /\ Progress' /\ AuditTellsAll'
    BY <1>2, <1>4, <1>6, <1>7 DEF Inv, ListedIsMoved, Progress, AuditTellsAll
  <1> QED BY <1>5, <1>8 DEF Inv

LEMMA InvNext == Inv /\ [Next]_vars => Inv'
  <1> SUFFICES ASSUME Inv, [Next]_vars PROVE Inv'
    OBVIOUS
  <1>1. ASSUME NEW s \in Saves, Request(s) PROVE Inv'
    BY <1>1, RequestKeepsInv
  <1>2. ASSUME NEW s \in Saves, Refuse(s) \/ Answer(s) PROVE Inv'
    BY <1>2, StageKeepsInv
  <1>3. ASSUME NEW s \in Saves, Apply(s) \/ Resume(s) PROVE Inv'
    BY <1>3, ApplyKeepsInv
  <1>4. CASE UNCHANGED <<save, audit, moved, swallowed>> /\ TypeOK'
    BY <1>4 DEF Inv, ListedIsMoved, Progress, AuditTellsAll, Of
  <1>5. ASSUME NEW role \in BOOLEAN, SetUp(role) PROVE Inv'
    BY <1>4, <1>5 DEF SetUp, Inv, TypeOK, Fields, ServerRow
  <1>6. CASE ForgetLog
    BY <1>4, <1>6 DEF ForgetLog, Inv, TypeOK, Fields, LogChannel
  <1>7. CASE UNCHANGED vars
    BY <1>4, <1>7 DEF vars, Inv, TypeOK
  <1> QED BY <1>1, <1>2, <1>3, <1>5, <1>6, <1>7 DEF Next

LEMMA InvHolds == Spec => []Inv
  BY InvInit, InvNext, PTL DEF Spec

\* Every variable keeps its type; a coroutine that has begun has a batch.
THEOREM SettingsTypeCorrect == Spec => []TypeOK
  <1>1. Inv => TypeOK
    BY DEF Inv
  <1> QED BY <1>1, InvHolds, PTL

\* The audit log (dashboard_audit) has all of a save or nothing of it, all of
\* it once the save was answered; what it has beside that is about a field of
\* which save_panel_branding or load_log_channel_id swallowed a failure.
THEOREM AuditIsWhole == Spec => []AuditTellsAll
  <1>1. Inv => AuditTellsAll
    BY DEF Inv
  <1> QED BY <1>1, InvHolds, PTL

\* A step of a save moves what was submitted, to what was submitted.
LEMMA TurnMovesSubmitted ==
    ASSUME Inv, NEW s \in Saves, save[s].stage \in {"plan", "releasing"},
           NEW first \in 1 .. 4, NEW last \in 0 .. 4,
           NEW stage \in Stages \ {"idle"}, Commit(s, first, last, stage)
    PROVE  \A c \in moved' \ moved : c[2] \in save[c[1]].batch /\ c[4] = save[c[1]].to
  <1>1. \E new, listed \in SUBSET Changes : Moves(s, stage, new, listed)
    BY CommitMoves
  <1> QED BY <1>1 DEF Moves

\* write_dashboard_settings writes the tables whole, and still moves only the
\* fields it was sent.
THEOREM OnlySubmittedFieldsMove == Spec => OnlySubmittedMoves
  <1> DEFINE Submitted ==
        \A c \in moved' \ moved : c[2] \in save[c[1]].batch /\ c[4] = save[c[1]].to
  <1>1. Inv /\ [Next]_vars => [Submitted]_vars
    <2> SUFFICES ASSUME Inv, Next PROVE Submitted
      BY DEF vars
    <2>1. CASE UNCHANGED moved
      BY <2>1
    <2>2. ASSUME NEW s \in Saves, Apply(s) \/ Resume(s) PROVE Submitted
      <3>0. save[s].stage \in {"plan", "releasing"}
        BY <2>2 DEF Apply, Resume
      <3>1. CASE Commit(s, 1, 3, "releasing")
        BY <3>0, <3>1, TurnMovesSubmitted DEF Stages
      <3>2. CASE \E first \in {1, 4} :
                   Fails(s, first) \/ NotSetUp(s, first) \/ Completes(s, first)
        <4>1. PICK first \in {1, 4} :
                Fails(s, first) \/ NotSetUp(s, first) \/ Completes(s, first)
          BY <3>2
        <4>2. PICK last \in 0 .. 4, stage \in {"rejected", "unavailable", "restyling"} :
                 Commit(s, first, last, stage)
          BY <4>1, TurnIsCommit
        <4>3. first \in 1 .. 4 /\ stage \in Stages \ {"idle"}
          BY DEF Stages
        <4> QED BY <3>0, <4>2, <4>3, TurnMovesSubmitted
      <3> QED BY <2>2, <3>1, <3>2 DEF Apply, Resume
    <2> QED BY <2>1, <2>2
            DEF Next, Request, Refuse, Answer, SetUp, ForgetLog, Elsewhere
  <1> QED BY <1>1, InvHolds, PTL DEF Spec, OnlySubmittedMoves
=============================================================================
